---- MODULE Spec2Model ----
(***************************************************************************)
(* LiquidityManager (src/utils/liquidity_manager.py) on top of             *)
(* BlockchainConnector (src/utils/blockchain_connector.py): one manager    *)
(* instance, its caller, and the chain it talks to (Spec, SpecPool,        *)
(* SpecUnits); two instances side by side (SpecTwo); tick_to_price over    *)
(* floats (SpecPrice); the connector's construction (SpecConnect) and its   *)
(* balance queries (SpecQueries); two connectors of one wallet sending     *)
(* transactions concurrently (SpecShared); a manager that has opened and   *)
(* closed one position already (SpecReclosed).                             *)
(*                                                                         *)
(* A Python attribute that may not exist yet on the instance is modelled   *)
(* as an optional: <<>> while absent, <<v>> once assigned.  Reading an     *)
(* absent attribute is Python's AttributeError.                            *)
(***************************************************************************)
EXTENDS Integers, Sequences, FiniteSets, TLC

\* ------------------------------------------------------------------ bounds
MaxCalls == 2
MaxLogs == 3
MaxTick == 3
MaxSpacing == 2
MaxUnits == 1
MaxDigits == 20
MaxDecimals == 2
MaxPriceTick == 4

\* --------------------------------------------------------------- optionals
None == <<>>

Some(v) == <<v>>

Has(x) == x # None

Val(x) == x[1]

\* ------------------------------------------------------- pool descriptor
token0_address == "token0"

token1_address == "token1"

nft_address == "nft"

token0_decimals == 3

token1_decimals == 1

\* ---------------------------------------------------- Python's float
\* A decimal literal is [digits, frac]: digits * 10^(-frac).  A rational is
\* [num, den].  A float is [m, e]: m * 2^e with MantissaBits significant bits
\* (a double has 53), zero being [0, 0].
MantissaBits == 4

MaxExp == 16

Pow10(n) == IF n = 0 THEN 1 ELSE IF n = 1 THEN 10 ELSE IF n = 2 THEN 100
            ELSE IF n = 3 THEN 1000 ELSE 10000

Pow2(n) == 2 ^ n

Rat(lit) == [num |-> lit.digits, den |-> Pow10(lit.frac)]

Scaled(q, e) ==
    IF e >= 0 THEN [num |-> q.num, den |-> q.den * Pow2(e)]
    ELSE [num |-> q.num * Pow2(-e), den |-> q.den]

\* The exponent that leaves MantissaBits bits before the binary point.
ExpOf(q) ==
    CHOOSE e \in (-MaxExp)..MaxExp :
        LET s == Scaled(q, e)
        IN  /\ s.num >= Pow2(MantissaBits - 1) * s.den
            /\ s.num < Pow2(MantissaBits) * s.den

\* Round to nearest, ties to even.
RoundHalfEven(q) ==
    LET fl == q.num \div q.den
        twice == 2 * (q.num % q.den)
    IN  IF twice < q.den THEN fl
        ELSE IF twice > q.den THEN fl + 1
        ELSE IF fl % 2 = 0 THEN fl ELSE fl + 1

\* float(q): the float nearest to the rational q >= 0.
ToFloat(q) ==
    IF q.num = 0 THEN [m |-> 0, e |-> 0]
    ELSE LET e == ExpOf(q)
             m == RoundHalfEven(Scaled(q, e))
         IN  IF m = Pow2(MantissaBits)
             THEN [m |-> Pow2(MantissaBits - 1), e |-> e + 1]
             ELSE [m |-> m, e |-> e]

\* Decimal(f): the exact value of a float.
FloatValue(f) ==
    IF f.e >= 0 THEN [num |-> f.m * Pow2(f.e), den |-> 1]
    ELSE [num |-> f.m, den |-> Pow2(-f.e)]

\* The float a decimal literal of the caller denotes.
Float(lit) == ToFloat(Rat(lit))

\* ------------------------------------------------------ Python's Decimal
\* Decimal(f) is exact, but the result of a Decimal multiplication or
\* division is rounded to the precision of the context, ties to even: 28
\* significant digits by default, next to the 53 bits of a float; prec digits
\* here, next to MantissaBits bits.
prec == 3

\* q / 10^x
Scaled10(q, x) ==
    IF x >= 0 THEN [num |-> q.num, den |-> q.den * (10 ^ x)]
    ELSE [num |-> q.num * (10 ^ (-x)), den |-> q.den]

\* The power of ten that leaves prec digits before the decimal point of
\* q > 0, searched from x.
RECURSIVE DecExpFrom(_, _)
DecExpFrom(q, x) ==
    LET s == Scaled10(q, x)
    IN  IF s.num >= (10 ^ prec) * s.den THEN DecExpFrom(q, x + 1)
        ELSE IF s.num < (10 ^ (prec - 1)) * s.den THEN DecExpFrom(q, x - 1)
        ELSE x

\* The rational q >= 0 as the context keeps it.
ContextRounded(q) ==
    IF q.num = 0 THEN q
    ELSE LET x == DecExpFrom(q, 0)
             n == RoundHalfEven(Scaled10(q, x))
         IN  Scaled10([num |-> n, den |-> 1], -x)

\* ---------------------------------------------------------- unit converter
\* int(Decimal(amount) * Decimal(10 ** decimals)): Decimal(amount) is the exact
\* value of the float, the product is rounded by the context, int() truncates.
to_blockchain_unit(amount, decimals) ==
    LET v == FloatValue(amount)
        product == ContextRounded([num |-> v.num * Pow10(decimals), den |-> v.den])
    IN  product.num \div product.den

\* float(Decimal(amount) / Decimal(10 ** decimals)): the quotient of an
\* integer by a power of ten has the digits of the integer, which the context
\* holds exactly for every base-unit amount below 10^28.
to_human_readable(amount, decimals) ==
    ToFloat([num |-> amount, den |-> Pow10(decimals)])

\* The amounts the caller constructed the manager with (0.01 and 3.0).
token0_max == Float([digits |-> 1, frac |-> 2])

token1_max == Float([digits |-> 3, frac |-> 0])

\* -------------------------------------------------------- tick/price math
\* Small ranges, and the values of the documented scenario (spacing 100,
\* tick 250, 3 units on each side) with its mirror image below zero.
Ticks == ((-MaxTick)..MaxTick) \cup {-250, 250}

Spacings == (1..MaxSpacing) \cup {100}

RangeUnits == (0..MaxUnits) \cup {3}

\* 1.0001^tick * 10^(token0_decimals - token1_decimals), kept symbolically.
tick_to_price(tick) ==
    [base_exp |-> tick, decimals_exp |-> token0_decimals - token1_decimals]

\* (sqrtPriceX96 / 2^96)^2 * 10^(...); the slot's sqrt price is the price at
\* the slot's tick.
get_current_price(slot) ==
    [base_exp |-> slot, decimals_exp |-> token0_decimals - token1_decimals]

raw_lower_tick_truncating(current_tick, spacing) ==
    IF current_tick >= 0
    THEN current_tick - (current_tick % spacing)
    ELSE current_tick + ((-current_tick) % spacing)

\* Python's % takes the sign of the (positive) divisor: it floors.
raw_lower_tick(current_tick, spacing) ==
    current_tick - (current_tick % spacing)

pool_ticks_unaligned(current_tick, spacing, lower_units, upper_units) ==
    [current_tick |-> current_tick,
     lower_tick |-> current_tick - lower_units * spacing,
     upper_tick |-> current_tick + spacing + upper_units * spacing]

pool_ticks_upper_from_raw_lower(current_tick, spacing, lower_units, upper_units) ==
    LET raw_lower == raw_lower_tick(current_tick, spacing)
    IN  [current_tick |-> current_tick,
         lower_tick |-> raw_lower - lower_units * spacing,
         upper_tick |-> raw_lower + upper_units * spacing]

pool_ticks(current_tick, spacing, lower_units, upper_units) ==
    LET raw_lower == raw_lower_tick(current_tick, spacing)
        raw_upper == raw_lower + spacing
    IN  [current_tick |-> current_tick,
         lower_tick |-> raw_lower - lower_units * spacing,
         upper_tick |-> raw_upper + upper_units * spacing]

pool_status(current_tick, spacing, lower_units, upper_units, price_slot) ==
    LET t == pool_ticks(current_tick, spacing, lower_units, upper_units)
    IN  [current_price |-> get_current_price(price_slot),
         lower_price |-> tick_to_price(t.lower_tick),
         upper_price |-> tick_to_price(t.upper_tick),
         current_tick |-> t.current_tick,
         lower_tick |-> t.lower_tick,
         upper_tick |-> t.upper_tick]

\* ------------------------------------------------------------------- state
VARIABLES
    lower_range_percentage, upper_range_percentage,
    nft_token_id, amount0, amount1,
    start_pool_status, tick_spacing,
    opening_tx_hash, opening_receipt,
    current_tick,
    pc, op, calls, call_args,
    txs, outcome, failed,
    slot0, poolSpacing, allowance, nonce, minted, positions, wallet_nonces,
    conv_amount, conv_decimals, conv_units, conv_human,
    managers,
    price_ticks, price_decimals, prices,
    env, construct_pc, connector_attrs, construct_error,
    self_private_key, self_public_address,
    query, query_pc, address, token_name, chain_reads, query_outcome,
    workers, mempool

\* A caller's use of the unit converter: the amount and the decimals passed,
\* what to_blockchain_unit returned and what to_human_readable made of that.
converter == <<conv_amount, conv_decimals, conv_units, conv_human>>

\* A caller's use of tick_to_price: the ticks it converts one after the other,
\* the decimals of the two tokens of the manager, and the prices returned.
pricing == <<price_ticks, price_decimals, prices>>

\* The construction of a BlockchainConnector: the configuration and the
\* outside world it meets, the stage of __init__ it is at, the attributes
\* assigned so far and the exception that ended it, if one did.
construction == <<env, construct_pc, connector_attrs, construct_error,
                  self_private_key, self_public_address>>

\* A call of one of the connector's balance queries: the method called with
\* its arguments and what the node and the files will answer, the local
\* variables address (wallet_address in get_token_balance) and token_name,
\* the reads sent to the node, and how the call ended.
queries == <<query, query_pc, address, token_name, chain_reads, query_outcome>>

\* Two managers of one wallet opening at the same time: for each its position
\* in lines 188-211 of open_liquidity_position and the nonce its connector
\* built the current transaction with; and the transactions of the wallet the
\* node holds that are not mined yet.
sharing == <<workers, mempool>>

params == <<lower_range_percentage, upper_range_percentage>>

position == <<nft_token_id, amount0, amount1>>

opening == <<opening_tx_hash, opening_receipt>>

\* The chain: the pool, the token allowances of the wallet, the wallet's
\* transaction count, the positions minted, and the nonces of the transactions
\* the wallet has broadcast, in order.
chain == <<slot0, poolSpacing, allowance, nonce, minted, positions, wallet_nonces>>

vars == <<lower_range_percentage, upper_range_percentage,
          nft_token_id, amount0, amount1, start_pool_status, tick_spacing,
          opening_tx_hash, opening_receipt, current_tick, pc, op, calls,
          call_args, txs, outcome, failed, slot0, poolSpacing, allowance,
          nonce, minted, positions, wallet_nonces,
          conv_amount, conv_decimals, conv_units, conv_human, managers,
          price_ticks, price_decimals, prices,
          env, construct_pc, connector_attrs, construct_error,
          self_private_key, self_public_address,
          query, query_pc, address, token_name, chain_reads, query_outcome,
          workers, mempool>>

\* The arguments of the call in progress; the operations without arguments
\* have none.
NoArgs == [amount0Min |-> 0, amount1Min |-> 0,
           amount0Max |-> "2**128 - 1", amount1Max |-> "2**128 - 1"]

\* What a caller passes to the close-phase operations: the defaults of lines
\* 264, 315 and 361, or values of its own.
CallerArgs ==
    {NoArgs,
     [amount0Min |-> 1, amount1Min |-> 2, amount0Max |-> "max0", amount1Max |-> "max1"]}

\* Several LiquidityManager instances of one process (same wallet, same pool),
\* each the record of its position attributes and the number of operations
\* called on it; none of the attributes exists after __init__.
Instances == {"first", "second"}

NewManager ==
    [nft_token_id |-> None, amount0 |-> None, amount1 |-> None,
     start_pool_status |-> None, tick_spacing |-> None,
     opening_tx_hash |-> None, opening_receipt |-> None, calls |-> 0]

NoOutcome == [status |-> "none", value |-> <<>>, errors |-> <<>>]

Returned(v) == [status |-> "returned", value |-> v, errors |-> <<>>]

Raised(errs) == [status |-> "raised", value |-> <<>>, errors |-> errs]

\* The instance right after __init__: no position attribute exists yet.
InitManager ==
    /\ nft_token_id = None /\ amount0 = None /\ amount1 = None
    /\ start_pool_status = None /\ tick_spacing = None
    /\ opening_tx_hash = None /\ opening_receipt = None
    /\ current_tick = None
    /\ pc = "idle" /\ op = "none" /\ calls = 0
    /\ txs = <<>> /\ outcome = NoOutcome /\ failed = {}
    /\ allowance = [t \in {token0_address, token1_address} |-> 0]
    /\ nonce = 0 /\ minted = 0 /\ positions = <<>> /\ wallet_nonces = <<>>
    /\ call_args = NoArgs
    /\ managers = [i \in Instances |-> NewManager]

NoConversion ==
    /\ conv_amount = None /\ conv_decimals = None
    /\ conv_units = None /\ conv_human = None

\* The values PRIVATE_KEY can have: keys Account.from_key accepts (the key of
\* the tests and a second one), strings it rejects with ValueError, the empty
\* string and None (os.getenv of an unset variable).
TestKey == "0x4c0883a6a102937d6231461b5dbb6204fe512921708279d96ad9e3ef3dbae1fd"

OtherKey == "0x0000000000000000000000000000000000000000000000000000000000000001"

ValidKeys == {TestKey, OtherKey}

\* Account.from_key(key).address, for the keys it accepts.
from_key(key) ==
    IF key = TestKey THEN "0x0dCbccB685DaD21066Da979e8C32053E7e8F9E9A"
    ELSE "0x7E5F4552091A69125d5DfCb7b8C2659029395Bdf"

\* The connector of the manager was constructed: supported provider, node
\* connected, valid key, both configuration files loaded.
Constructed ==
    /\ env = [PROVIDER |-> "INFURA", is_connected |-> TRUE, PRIVATE_KEY |-> TestKey,
              token_addresses_json |-> TRUE, pools_information_json |-> TRUE]
    /\ construct_pc = "done"
    /\ connector_attrs = {"web3", "private_key", "public_address", "token_addresses",
                          "pools_information"}
    /\ construct_error = None
    /\ self_private_key = Some(TestKey)
    /\ self_public_address = Some(from_key(TestKey))

NoQuery ==
    /\ query = None /\ query_pc = "idle" /\ address = None /\ token_name = None
    /\ chain_reads = <<>> /\ query_outcome = None

NoSharing ==
    /\ workers = [i \in Instances |-> [step |-> "idle", at |-> "start", nonce |-> None]]
    /\ mempool = {}

NoPricing == price_ticks = <<>> /\ price_decimals = <<>> /\ prices = <<>>

Init ==
    /\ InitManager
    /\ NoQuery
    /\ NoSharing
    /\ Constructed
    /\ NoConversion
    /\ NoPricing
    /\ lower_range_percentage = MaxUnits
    /\ upper_range_percentage = MaxUnits
    /\ poolSpacing = MaxSpacing
    /\ slot0 = -1

InitPool ==
    /\ InitManager
    /\ NoQuery
    /\ NoSharing
    /\ Constructed
    /\ NoConversion
    /\ NoPricing
    /\ lower_range_percentage \in RangeUnits
    /\ upper_range_percentage \in RangeUnits
    /\ poolSpacing \in Spacings
    /\ slot0 \in Ticks

\* ------------------------------------------------------ exception handlers
\* The messages the except clauses on the way out put around an inner error,
\* outermost first ("raise RuntimeError(...) from e").
OpWrap(o) ==
    IF o = "open" THEN <<"Failed to open liquidity position.">>
    ELSE IF o = "close" THEN <<"Failed to close liquidity position.">>
    ELSE <<>>

StepWrap_generic(step) == <<"Transaction failed">>

StepWrap(step) ==
    IF step \in {"slot0", "tickSpacing", "current_price"}
    THEN <<"Failed to fetch pool status.">>
    ELSE IF step \in {"approve0", "approve1"}
    THEN <<"Token approval transaction failed.">>
    ELSE IF step = "decrease" THEN <<"Failed to decrease liquidity.">>
    ELSE IF step = "collect" THEN <<"Failed to collect fees.">>
    ELSE IF step = "burn" THEN <<"Failed to burn NFT.">>
    ELSE <<>>

\* What the except clause of each close-phase function does with the error it
\* caught: lines 357-359, 397-399 and 425-427 raise a RuntimeError from it.
decrease_liquidity_except_logs_only == "return"

decrease_liquidity_except == "raise"

collect_fees_except_logs_only == "return"

collect_fees_except == "raise"

burn_nft_except_logs_only == "return"

burn_nft_except == "raise"

\* approve_token, lines 386-388.
approve_token_except_logs_only == "return"

approve_token_except == "raise"

get_pool_status_except_returns_default == "return"

\* get_pool_status, lines 158-160.
get_pool_status_except == "raise"

ExceptOf(step) ==
    IF step \in {"slot0", "tickSpacing", "current_price"} THEN get_pool_status_except
    ELSE IF step = "decrease" THEN decrease_liquidity_except
    ELSE IF step = "collect" THEN collect_fees_except
    ELSE IF step = "burn" THEN burn_nft_except
    ELSE IF step \in {"approve0", "approve1"} THEN approve_token_except
    ELSE "raise"

\* `step` of the current call fails with `inner`.  A handler that raises ends
\* the call: every caller up to the public operation re-raises.  A handler
\* that only returned would hand None to its caller, which goes on.
Raise(step, inner) ==
    /\ failed' = failed \cup {step}
    /\ IF ExceptOf(step) = "raise"
       THEN /\ pc' = "idle"
            /\ outcome' = Raised(OpWrap(op) \o StepWrap(step) \o inner)
       ELSE IF op = "close" /\ step \in {"decrease", "collect"}
       THEN /\ pc' = IF step = "decrease" THEN "collect" ELSE "burn"
            /\ outcome' = outcome
       ELSE IF op = "open" /\ step \in {"approve0", "approve1"}
       THEN /\ pc' = IF step = "approve0" THEN "approve1" ELSE "mint"
            /\ outcome' = outcome
       ELSE /\ pc' = "idle"
            /\ outcome' = Returned(<<>>)

\* The messages the code raises as RuntimeError: liquidity_manager.py lines
\* 103, 160, 221, 262, 313, 359, 399, 427 and blockchain_connector.py lines
\* 388 and 432.
RuntimeErrorMessages ==
    {"Failed to fetch current price.", "Failed to fetch pool status.",
     "Failed to open liquidity position.",
     "Error parsing mint receipt: AttributeError",
     "Failed to close liquidity position.", "Failed to decrease liquidity.",
     "Failed to collect fees.", "Failed to burn NFT.",
     "Token approval transaction failed.", "Transaction failed"}

\* The class of the exception that carries a message.
ExceptionType(msg) ==
    IF msg \in RuntimeErrorMessages THEN "RuntimeError"
    ELSE IF msg = "AttributeError: nft_token_id" THEN "AttributeError"
    ELSE IF msg = "Minting liquidity failed." THEN "Exception"
    ELSE IF msg = "TimeExhausted" THEN "TimeExhausted"
    ELSE "Web3Exception"

\* The class of the exception the caller of the operation catches: that of
\* the outermost error of the chain.
RaisedType == ExceptionType(Head(outcome.errors))

\* ------------------------------------------------------------ the caller
Begin(o, first, args) ==
    /\ pc = "idle"
    /\ call_args' = args
    /\ calls < MaxCalls
    /\ calls' = calls + 1
    /\ op' = o
    /\ pc' = first
    /\ txs' = <<>>
    /\ outcome' = NoOutcome
    /\ failed' = {}
    /\ current_tick' = None

CallGetPoolStatus ==
    /\ Begin("get_pool_status", "slot0", NoArgs)
    /\ UNCHANGED <<sharing, queries, construction, pricing, managers, converter, params, position, opening, chain, start_pool_status, tick_spacing>>

\* --------------------------------------------------------- get_pool_status
ReadSlot0 ==
    /\ pc = "slot0"
    /\ current_tick' = Some(slot0)
    /\ pc' = "tickSpacing"
    /\ UNCHANGED <<sharing, queries, construction, pricing, managers, converter, params, position, opening, chain, start_pool_status,
                   tick_spacing, op, calls, call_args, txs, outcome, failed>>

ReadSlot0Fails ==
    /\ pc = "slot0"
    /\ Raise("slot0", <<"slot0 call failed">>)
    /\ UNCHANGED <<sharing, queries, construction, pricing, managers, converter, params, position, opening, chain, start_pool_status,
                   tick_spacing, current_tick, op, calls, call_args, txs>>

ReadTickSpacing ==
    /\ pc = "tickSpacing"
    /\ tick_spacing' = Some(poolSpacing)
    /\ pc' = "current_price"
    /\ UNCHANGED <<sharing, queries, construction, pricing, managers, converter, params, position, opening, chain, start_pool_status,
                   current_tick, op, calls, call_args, txs, outcome, failed>>

ReadTickSpacingFails ==
    /\ pc = "tickSpacing"
    /\ Raise("tickSpacing", <<"tickSpacing call failed">>)
    /\ UNCHANGED <<sharing, queries, construction, pricing, managers, converter, params, position, opening, chain, start_pool_status,
                   tick_spacing, current_tick, op, calls, call_args, txs>>

\* Lines 134-156, and for open the assignment of line 179.
GetPoolStatusReturns ==
    /\ pc = "current_price"
    /\ LET status == pool_status(Val(current_tick), Val(tick_spacing),
                                 lower_range_percentage, upper_range_percentage,
                                 slot0)
       IN  IF op = "open"
           THEN /\ start_pool_status' = Some(status)
                /\ pc' = "approve0"
                /\ outcome' = outcome
           ELSE /\ start_pool_status' = start_pool_status
                /\ pc' = "idle"
                /\ outcome' = Returned(<<status>>)
    /\ UNCHANGED <<sharing, queries, construction, pricing, managers, converter, params, position, opening, chain, tick_spacing,
                   current_tick, op, calls, call_args, txs, failed>>

GetCurrentPriceFails ==
    /\ pc = "current_price"
    /\ Raise("current_price", <<"Failed to fetch current price.", "slot0 call failed">>)
    /\ UNCHANGED <<sharing, queries, construction, pricing, managers, converter, params, position, opening, chain, start_pool_status,
                   tick_spacing, current_tick, op, calls, call_args, txs>>

\* The pool trades: its slot moves to another tick.
PoolMoves ==
    /\ \E t \in Ticks \ {slot0} : slot0' = t
    /\ UNCHANGED <<sharing, queries, construction, pricing, managers, converter, params, position, opening, start_pool_status, tick_spacing,
                   current_tick, pc, op, calls, call_args, txs, outcome, failed,
                   poolSpacing, wallet_nonces, allowance, nonce, minted, positions>>

NextPool ==
    \/ CallGetPoolStatus
    \/ ReadSlot0
    \/ ReadSlot0Fails
    \/ ReadTickSpacing
    \/ ReadTickSpacingFails
    \/ GetPoolStatusReturns
    \/ GetCurrentPriceFails
    \/ PoolMoves

SpecPool == InitPool /\ [][NextPool]_vars

\* ------------------------------------------------- the unit converter alone
\* The amounts a caller may write and the decimals of a token.
Literals == [digits : 0..MaxDigits, frac : 0..MaxDecimals]

InitUnits ==
    /\ InitManager
    /\ NoQuery
    /\ NoSharing
    /\ Constructed
    /\ NoPricing
    /\ lower_range_percentage = MaxUnits
    /\ upper_range_percentage = MaxUnits
    /\ poolSpacing = MaxSpacing
    /\ slot0 = -1
    /\ conv_amount \in {Some(x) : x \in Literals}
    /\ conv_decimals \in {Some(d) : d \in 0..MaxDecimals}
    /\ conv_units = None
    /\ conv_human = None

ToBlockchainUnit ==
    /\ Has(conv_amount)
    /\ ~Has(conv_units)
    /\ conv_units' = Some(to_blockchain_unit(Float(Val(conv_amount)), Val(conv_decimals)))
    /\ UNCHANGED <<sharing, queries, construction, pricing, managers, params, position, opening, chain, start_pool_status,
                   tick_spacing, current_tick, pc, op, calls, call_args, txs, outcome, failed,
                   conv_amount, conv_decimals, conv_human>>

ToHumanReadable ==
    /\ Has(conv_units)
    /\ ~Has(conv_human)
    /\ conv_human' = Some(to_human_readable(Val(conv_units), Val(conv_decimals)))
    /\ UNCHANGED <<sharing, queries, construction, pricing, managers, params, position, opening, chain, start_pool_status,
                   tick_spacing, current_tick, pc, op, calls, call_args, txs, outcome, failed,
                   conv_amount, conv_decimals, conv_units>>

NextUnits ==
    \/ ToBlockchainUnit
    \/ ToHumanReadable

SpecUnits == InitUnits /\ [][NextUnits]_vars

\* ---------------------------------------------------- tick_to_price alone
RECURSIVE Gcd(_, _)
Gcd(a, b) == IF b = 0 THEN a ELSE Gcd(b, a % b)

\* A rational in lowest terms.
Reduced(q) == [num |-> q.num \div Gcd(q.num, q.den), den |-> q.den \div Gcd(q.num, q.den)]

RatMul(a, b) == Reduced([num |-> a.num * b.num, den |-> a.den * b.den])

RECURSIVE RatPow(_, _)
RatPow(q, n) ==
    IF n = 0 THEN [num |-> 1, den |-> 1]
    ELSE IF n > 0 THEN RatMul(Reduced(q), RatPow(q, n - 1))
    ELSE LET r == RatPow(q, -n) IN [num |-> r.den, den |-> r.num]

\* f ** n for a float f > 0 and an int n: the float nearest to the power.
FloatPow(f, n) == ToFloat(RatPow(FloatValue(f), n))

\* f * g, both floats.
FloatMul(f, g) == ToFloat(RatMul(FloatValue(f), FloatValue(g)))

\* f < g for floats above zero: both mantissas have their leading bit set.
FloatLess(f, g) == f.e < g.e \/ (f.e = g.e /\ f.m < g.m)

base_below_one == Float([digits |-> 5, frac |-> 1])

\* base = 1.0001 (line 74).  The step of the base above 1 is 2^-13, far above
\* the last of the 53 bits of a double; with the MantissaBits bits of the
\* floats here a base of 1.5 keeps the step above the last bit.
base == Float([digits |-> 15, frac |-> 1])

\* 10 ** (token0_decimals - token1_decimals), line 75: an int for an exponent
\* of zero or more, else a float; the product of line 76 makes a float of it.
adjusted_decimal(decimals0, decimals1) ==
    IF decimals0 >= decimals1
    THEN ToFloat([num |-> Pow10(decimals0 - decimals1), den |-> 1])
    ELSE ToFloat([num |-> 1, den |-> Pow10(decimals1 - decimals0)])

\* (base ** tick) * adjusted_decimal, lines 74-77, as the float it is.
tick_to_price_value(tick, decimals0, decimals1) ==
    FloatMul(FloatPow(base, tick), adjusted_decimal(decimals0, decimals1))

\* The decimals of the two tokens of a pool: equal ones, those of this
\* manager's pool, and a pair with more decimals on token1.
DecimalPairs == {<<0, 0>>, <<1, 1>>, <<token0_decimals, token1_decimals>>, <<1, 3>>}

\* get_pool_status converts the lower and the upper tick (lines 144-145); a
\* caller converts tick 0.
InitPrice ==
    /\ InitManager
    /\ NoQuery
    /\ NoSharing
    /\ Constructed
    /\ NoConversion
    /\ poolSpacing \in 1..MaxSpacing
    /\ slot0 \in (-MaxPriceTick)..MaxPriceTick
    /\ lower_range_percentage \in 0..MaxUnits
    /\ upper_range_percentage \in 0..MaxUnits
    /\ \E t \in {pool_ticks(slot0, poolSpacing, lower_range_percentage,
                            upper_range_percentage)} :
          /\ t.lower_tick >= -MaxPriceTick
          /\ t.upper_tick <= MaxPriceTick
          /\ price_ticks = <<0, t.lower_tick, t.upper_tick>>
    /\ price_decimals \in DecimalPairs
    /\ prices = <<>>

TickToPrice ==
    /\ Len(prices) < Len(price_ticks)
    /\ prices' = Append(prices, tick_to_price_value(price_ticks[Len(prices) + 1],
                                                    price_decimals[1], price_decimals[2]))
    /\ UNCHANGED <<sharing, queries, construction, managers, converter, params, position, opening, chain,
                   start_pool_status, tick_spacing, current_tick, pc, op, calls,
                   call_args, txs, outcome, failed, price_ticks, price_decimals>>

NextPrice == TickToPrice

SpecPrice == InitPrice /\ [][NextPrice]_vars

\* ------------------------------------------- BlockchainConnector.__init__
\* What the configuration (src/config/config.py) and the outside world can be.
Environments ==
    [PROVIDER : {"INFURA", "ALCHEMY", "UNSUPPORTED", "infura"},
     is_connected : BOOLEAN,
     PRIVATE_KEY : ValidKeys \cup {"InvalidPrivateKey", "", "unset"},
     token_addresses_json : BOOLEAN,
     pools_information_json : BOOLEAN]

\* BlockchainConnector() is called: __init__ is about to run line 38.
InitConnect ==
    /\ InitManager
    /\ NoQuery
    /\ NoSharing
    /\ NoConversion
    /\ NoPricing
    /\ lower_range_percentage = MaxUnits
    /\ upper_range_percentage = MaxUnits
    /\ poolSpacing = MaxSpacing
    /\ slot0 = -1
    /\ env \in Environments
    /\ construct_pc = "connect_to_blockchain"
    /\ connector_attrs = {}
    /\ construct_error = None
    /\ self_private_key = None
    /\ self_public_address = None

\* A stage of __init__ returns: its attribute is assigned, the next one runs.
StageReturns(attribute, next) ==
    /\ connector_attrs' = connector_attrs \cup {attribute}
    /\ construct_pc' = next
    /\ construct_error' = construct_error
    /\ UNCHANGED <<sharing, queries, env, managers, pricing, converter, params, position, opening, chain,
                   start_pool_status, tick_spacing, current_tick, pc, op, calls,
                   call_args, txs, outcome, failed>>

\* A stage raises: __init__ is left, the caller gets the exception and no
\* instance.
StageRaises(exception) ==
    /\ construct_pc' = "raised"
    /\ construct_error' = Some(exception)
    /\ UNCHANGED <<self_private_key, self_public_address>>
    /\ UNCHANGED <<sharing, queries, env, connector_attrs, managers, pricing, converter, params, position,
                   opening, chain, start_pool_status, tick_spacing, current_tick, pc, op,
                   calls, call_args, txs, outcome, failed>>

SupportedProvider == env.PROVIDER \in {"INFURA", "ALCHEMY"}

\* connect_to_blockchain, lines 56-72, assigned at line 38.
Connects ==
    /\ construct_pc = "connect_to_blockchain"
    /\ SupportedProvider
    /\ env.is_connected
    /\ StageReturns("web3", "get_valid_private_key")
    /\ UNCHANGED <<self_private_key, self_public_address>>

\* Lines 62-64, re-raised by lines 74-76.
UnsupportedProvider ==
    /\ construct_pc = "connect_to_blockchain"
    /\ ~SupportedProvider
    /\ StageRaises("ValueError")

ConnectionFails_logs_only ==
    /\ construct_pc = "connect_to_blockchain"
    /\ SupportedProvider
    /\ ~env.is_connected
    /\ StageReturns("web3", "get_valid_private_key")
    /\ UNCHANGED <<self_private_key, self_public_address>>

\* Lines 67-70, re-raised by lines 74-76.
ConnectionFails ==
    /\ construct_pc = "connect_to_blockchain"
    /\ SupportedProvider
    /\ ~env.is_connected
    /\ StageRaises("RuntimeError")

\* get_valid_private_key, lines 92-94, assigned at line 39.
PrivateKeyValid ==
    /\ construct_pc = "get_valid_private_key"
    /\ env.PRIVATE_KEY \in ValidKeys
    /\ StageReturns("private_key", "derive_public_address")
    /\ self_private_key' = Some(env.PRIVATE_KEY)
    /\ UNCHANGED self_public_address

\* Lines 88-90 (not set) and 95-97 (Account.from_key raises ValueError).
PrivateKeyInvalid ==
    /\ construct_pc = "get_valid_private_key"
    /\ env.PRIVATE_KEY \notin ValidKeys
    /\ StageRaises("ValueError")

DerivesPublicAddress_from_configured_test_key ==
    /\ construct_pc = "derive_public_address"
    /\ StageReturns("public_address", "load_token_addresses")
    /\ self_public_address' = Some(from_key(TestKey))
    /\ UNCHANGED self_private_key

\* derive_public_address, lines 109-117, assigned at line 40: the address of
\* self.private_key, which line 39 assigned (lines 110-112 cannot be taken, a
\* key that passed get_valid_private_key is not empty).
DerivesPublicAddress ==
    /\ construct_pc = "derive_public_address"
    /\ StageReturns("public_address", "load_token_addresses")
    /\ self_public_address' = Some(from_key(Val(self_private_key)))
    /\ UNCHANGED self_private_key

\* load_token_addresses, lines 155-163, assigned at line 41.
LoadsTokenAddresses ==
    /\ construct_pc = "load_token_addresses"
    /\ env.token_addresses_json
    /\ StageReturns("token_addresses", "load_pools_information")
    /\ UNCHANGED <<self_private_key, self_public_address>>

\* Lines 164-166: the error of open() or json.load() is raised as it is.
TokenAddressesFail ==
    /\ construct_pc = "load_token_addresses"
    /\ ~env.token_addresses_json
    /\ StageRaises("OSError")

\* load_pools_information, lines 178-184, assigned at line 42.
LoadsPoolsInformation ==
    /\ construct_pc = "load_pools_information"
    /\ env.pools_information_json
    /\ StageReturns("pools_information", "done")
    /\ UNCHANGED <<self_private_key, self_public_address>>

\* Lines 185-188.
PoolsInformationFail ==
    /\ construct_pc = "load_pools_information"
    /\ ~env.pools_information_json
    /\ StageRaises("RuntimeError")

NextConnect ==
    \/ Connects
    \/ UnsupportedProvider
    \/ ConnectionFails
    \/ PrivateKeyValid
    \/ PrivateKeyInvalid
    \/ DerivesPublicAddress
    \/ LoadsTokenAddresses
    \/ TokenAddressesFail
    \/ LoadsPoolsInformation
    \/ PoolsInformationFail

SpecConnect == InitConnect /\ [][NextConnect]_vars

\* ------------------------------------------------------------ transactions
\* What build_and_send_transaction has broadcast during the current call, in
\* order: kind, hash (the call and the place in it identify a transaction),
\* the nonce it was built with, the token id it names and what became of it.
LastTx == txs[Len(txs)]

TokenOf(step) == IF step = "approve0" THEN token0_address ELSE token1_address

\* Lines 184-185.
token0_amount == to_blockchain_unit(token0_max, token0_decimals)

token1_amount == to_blockchain_unit(token1_max, token1_decimals)

AmountOf(step) == IF step = "approve0" THEN token0_amount ELSE token1_amount

HasTokenId_defaulted == TRUE

\* Reading self.nft_token_id succeeds only once the attribute exists.
HasTokenId == Has(nft_token_id)

TokenIdArg == IF Has(nft_token_id) THEN Val(nft_token_id) ELSE 0

\* self.blockchain_connector.public_address
public_address == "wallet"

\* web3.eth.get_block("latest")["timestamp"]: a block per mined transaction of
\* the wallet, the timestamp counting them.
latest_block_timestamp == nonce

\* 3 * 60
deadline_seconds == 180

\* approve(spender_address, amount), lines 188-189 and 378.
approve_arguments(step) == [spender |-> nft_address, amount |-> AmountOf(step)]

mint_parameters_amounts_swapped ==
    [token0 |-> token0_address,
     token1 |-> token1_address,
     tickSpacing |-> Val(tick_spacing),
     tickLower |-> Val(start_pool_status).lower_tick,
     tickUpper |-> Val(start_pool_status).upper_tick,
     amount0Desired |-> token1_amount,
     amount1Desired |-> token0_amount,
     amount0Min |-> 0,
     amount1Min |-> 0,
     recipient |-> public_address,
     deadline |-> latest_block_timestamp + deadline_seconds,
     sqrtPriceX96 |-> 0]

\* Lines 192-205.
mint_parameters ==
    [token0 |-> token0_address,
     token1 |-> token1_address,
     tickSpacing |-> Val(tick_spacing),
     tickLower |-> Val(start_pool_status).lower_tick,
     tickUpper |-> Val(start_pool_status).upper_tick,
     amount0Desired |-> token0_amount,
     amount1Desired |-> token1_amount,
     amount0Min |-> 0,
     amount1Min |-> 0,
     recipient |-> public_address,
     deadline |-> latest_block_timestamp + deadline_seconds,
     sqrtPriceX96 |-> 0]

\* The position is on the chain and was not burned.
PositionExists(id) == id \in 1..Len(positions) /\ ~positions[id].burned

\* The NFT contract burns a position only when it holds no liquidity and owes
\* no tokens; otherwise the burn transaction reverts.
Burnable(id) ==
    /\ PositionExists(id)
    /\ positions[id].liquidity = 0
    /\ ~positions[id].owed

\* nft_contract.functions.positions(tokenId).call(): nonce, operator, token0,
\* token1, tickSpacing, tickLower, tickUpper, liquidity, the two fee growths
\* and the two amounts owed.
positions_call(id) ==
    <<0, "operator", token0_address, token1_address, positions[id].tickSpacing,
      positions[id].tickLower, positions[id].tickUpper, positions[id].liquidity,
      0, 0, 0, 0>>

current_liquidity_field_before ==
    positions_call(TokenIdArg)[7]

\* position[7], counted from 0 (line 337).
current_liquidity == positions_call(TokenIdArg)[8]

\* Lines 341-347.
decrease_params ==
    [tokenId |-> TokenIdArg,
     liquidity |-> current_liquidity,
     amount0Min |-> call_args.amount0Min,
     amount1Min |-> call_args.amount1Min,
     deadline |-> latest_block_timestamp + deadline_seconds]

\* Lines 382-387.
collect_params ==
    [tokenId |-> TokenIdArg,
     recipient |-> public_address,
     amount0Max |-> call_args.amount0Max,
     amount1Max |-> call_args.amount1Max]

\* burn(tokenId), line 419.
burn_arguments == [tokenId |-> TokenIdArg]

Broadcast_without_waiting(kind, id, args) ==
    /\ txs' = Append(txs, [kind |-> kind, hash |-> <<calls, Len(txs) + 1>>,
                           nonce |-> nonce, tokenId |-> id, args |-> args,
                           status |-> "pending"])
    /\ wallet_nonces' = Append(wallet_nonces, nonce)
    /\ pc' = IF kind = "approve0" THEN "approve1"
             ELSE IF kind = "approve1" THEN "mint"
             ELSE IF kind = "decrease" /\ op = "close" THEN "collect"
             ELSE IF kind = "collect" /\ op = "close" THEN "burn"
             ELSE "idle"

\* Lines 407-420: the transaction is built with the wallet's transaction
\* count as nonce, signed and sent, and the caller waits for its receipt.
Broadcast(kind, id, args) ==
    /\ txs' = Append(txs, [kind |-> kind, hash |-> <<calls, Len(txs) + 1>>,
                           nonce |-> nonce, tokenId |-> id, args |-> args,
                           status |-> "pending"])
    /\ wallet_nonces' = Append(wallet_nonces, nonce)
    /\ pc' = "wait"

Settle(status) == txs' = [txs EXCEPT ![Len(txs)].status = status]

\* The hash a sub-step returned to close_liquidity_position; None (<<>> here)
\* when it returned without one.
HashOf(kind) ==
    IF \E j \in 1..Len(txs) : txs[j].kind = kind /\ txs[j].status = "success"
    THEN LET i == CHOOSE j \in 1..Len(txs) :
                      txs[j].kind = kind /\ txs[j].status = "success"
         IN  txs[i].hash
    ELSE <<>>

\* -------------------------------------------------- open_liquidity_position
CallOpen ==
    /\ Begin("open", "slot0", NoArgs)
    /\ UNCHANGED <<sharing, queries, construction, pricing, managers, converter, params, position, opening, chain, start_pool_status, tick_spacing>>

\* approve_token, lines 372-375: the allowance already covers the amount.
ApproveSkips ==
    /\ pc \in {"approve0", "approve1"}
    /\ allowance[TokenOf(pc)] >= AmountOf(pc)
    /\ pc' = IF pc = "approve0" THEN "approve1" ELSE "mint"
    /\ UNCHANGED <<sharing, queries, construction, pricing, managers, converter, params, position, opening, chain, start_pool_status,
                   tick_spacing, current_tick, op, calls, call_args, txs, outcome, failed>>

ApproveSubmits_at_equal ==
    /\ pc \in {"approve0", "approve1"}
    /\ allowance[TokenOf(pc)] <= AmountOf(pc)
    /\ Broadcast(pc, 0, approve_arguments(pc))
    /\ UNCHANGED <<sharing, queries, construction, pricing, managers, converter, params, position, opening, start_pool_status, tick_spacing,
                   current_tick, op, calls, call_args, outcome, failed,
                   slot0, poolSpacing, allowance, nonce, minted, positions>>

\* approve_token, lines 378-381, up to the broadcast.
ApproveSubmits ==
    /\ pc \in {"approve0", "approve1"}
    /\ allowance[TokenOf(pc)] < AmountOf(pc)
    /\ Broadcast(pc, 0, approve_arguments(pc))
    /\ UNCHANGED <<sharing, queries, construction, pricing, managers, converter, params, position, opening, start_pool_status, tick_spacing,
                   current_tick, op, calls, call_args, outcome, failed,
                   slot0, poolSpacing, allowance, nonce, minted, positions>>

AllowanceReadFails ==
    /\ pc \in {"approve0", "approve1"}
    /\ Raise(pc, <<"allowance call failed">>)
    /\ UNCHANGED <<sharing, queries, construction, pricing, managers, converter, params, position, opening, chain, start_pool_status,
                   tick_spacing, current_tick, op, calls, call_args, txs>>

ApproveConfirmed ==
    /\ pc = "wait"
    /\ LastTx.kind \in {"approve0", "approve1"}
    /\ Settle("success")
    /\ allowance' = [allowance EXCEPT ![TokenOf(LastTx.kind)] = AmountOf(LastTx.kind)]
    /\ nonce' = nonce + 1
    /\ pc' = IF LastTx.kind = "approve0" THEN "approve1" ELSE "mint"
    /\ UNCHANGED <<sharing, queries, construction, pricing, managers, converter, params, position, opening, start_pool_status, tick_spacing,
                   current_tick, op, calls, call_args, outcome, failed,
                   slot0, poolSpacing, wallet_nonces, minted, positions>>

\* Lines 192-211, up to the broadcast of the mint transaction.
MintSubmits ==
    /\ pc = "mint"
    /\ Broadcast("mint", 0, mint_parameters)
    /\ UNCHANGED <<sharing, queries, construction, pricing, managers, converter, params, position, opening, start_pool_status, tick_spacing,
                   current_tick, op, calls, call_args, outcome, failed,
                   slot0, poolSpacing, allowance, nonce, minted, positions>>

\* ------------------------------------------------------------ mint receipts
\* Values on the chain are big-endian byte strings; two bytes stand for 32.
Bytes(n) == <<n \div 256, n % 256>>

RECURSIVE FromHex(_)
\* int(x.hex(), 16)
FromHex(bytes) ==
    IF bytes = <<>> THEN 0
    ELSE 256 * FromHex(SubSeq(bytes, 1, Len(bytes) - 1)) + bytes[Len(bytes)]

\* What the pool takes differs from mint to mint: the desired amount at the
\* first one, a unit less at each later one.
RealizedAmount(step, id) == AmountOf(step) - (id - 1)

\* The liquidity the pool credits to position `id` for what it took.
MintedLiquidity(id) == RealizedAmount("approve0", id) + RealizedAmount("approve1", id)

\* The logs a mint of position `id` may carry: the two token transfers,
\* token0's Approval log of the allowance that is left (none), the NFT
\* contract's two-topic log (signature, token id) and its four-topic Transfer
\* log (signature, from, to, token id).
MintLogs(id) ==
    {[address |-> token0_address, data |-> Bytes(RealizedAmount("approve0", id)),
      topics |-> <<Bytes(0), Bytes(0), Bytes(0)>>],
     [address |-> token0_address, data |-> Bytes(0),
      topics |-> <<Bytes(1), Bytes(0), Bytes(0)>>],
     [address |-> token1_address, data |-> Bytes(RealizedAmount("approve1", id)),
      topics |-> <<Bytes(0), Bytes(0), Bytes(0)>>],
     [address |-> nft_address, data |-> Bytes(0), topics |-> <<Bytes(0), Bytes(id)>>],
     [address |-> nft_address, data |-> <<>>,
      topics |-> <<Bytes(0), Bytes(0), Bytes(0), Bytes(id)>>]}

\* The receipts of n logs, no log twice (a repeated log assigns what its first
\* copy assigned).
Receipts(id, n) ==
    {logs \in [1..n -> MintLogs(id)] :
        \A i, j \in 1..n : i # j => logs[i] # logs[j]}

\* --------------------------------------------------- parse_opening_receipt
parse_log_any_topics(log, p) ==
    LET p0 == IF log.address = token0_address
              THEN [p EXCEPT !.amount0 =
                       Some(to_human_readable(FromHex(log.data), token0_decimals))]
              ELSE p
        p1 == IF log.address = token1_address
              THEN [p0 EXCEPT !.amount1 =
                       Some(to_human_readable(FromHex(log.data), token1_decimals))]
              ELSE p0
    IN  IF log.address = nft_address
        THEN [p1 EXCEPT !.nft_token_id = Some(FromHex(log.topics[2]))]
        ELSE p1

parse_log_keeps_first(log, p) ==
    LET p0 == IF log.address = token0_address /\ ~Has(p.amount0)
              THEN [p EXCEPT !.amount0 =
                       Some(to_human_readable(FromHex(log.data), token0_decimals))]
              ELSE p
        p1 == IF log.address = token1_address /\ ~Has(p.amount1)
              THEN [p0 EXCEPT !.amount1 =
                       Some(to_human_readable(FromHex(log.data), token1_decimals))]
              ELSE p0
    IN  IF log.address = nft_address /\ Len(log.topics) = 2
        THEN [p1 EXCEPT !.nft_token_id = Some(FromHex(log.topics[2]))]
        ELSE p1

\* The body of the for loop, lines 237-252, on one log.
parse_log(log, p) ==
    LET p0 == IF log.address = token0_address
              THEN [p EXCEPT !.amount0 =
                       Some(to_human_readable(FromHex(log.data), token0_decimals))]
              ELSE p
        p1 == IF log.address = token1_address
              THEN [p0 EXCEPT !.amount1 =
                       Some(to_human_readable(FromHex(log.data), token1_decimals))]
              ELSE p0
    IN  IF log.address = nft_address /\ Len(log.topics) = 2
        THEN [p1 EXCEPT !.nft_token_id = Some(FromHex(log.topics[2]))]
        ELSE p1

RECURSIVE parse_logs(_, _)
\* The for loop of line 235 over the receipt's logs, in order.
parse_logs(logs, p) ==
    IF logs = <<>> THEN p
    ELSE parse_logs(Tail(logs), parse_log(Head(logs), p))

\* The return statement, lines 255-259, reads the three attributes.
parse_returns(p) == Has(p.amount0) /\ Has(p.amount1) /\ Has(p.nft_token_id)

MintConfirmed_records_after_parse ==
    /\ pc = "wait"
    /\ LastTx.kind = "mint"
    /\ allowance[token0_address] >= AmountOf("approve0")
    /\ allowance[token1_address] >= AmountOf("approve1")
    /\ Settle("success")
    /\ nonce' = nonce + 1
    /\ minted' = minted + 1
    /\ positions' = Append(positions,
                           [tickSpacing |-> LastTx.args.tickSpacing,
                            tickLower |-> LastTx.args.tickLower,
                            tickUpper |-> LastTx.args.tickUpper,
                            liquidity |-> MintedLiquidity(minted + 1),
                            burned |-> FALSE,
                            owed |-> FALSE])
    /\ allowance' = [t \in DOMAIN allowance |->
                        IF t = token0_address
                        THEN allowance[t] - AmountOf("approve0")
                        ELSE allowance[t] - AmountOf("approve1")]
    /\ \E n \in 0..MaxLogs : \E logs \in Receipts(minted + 1, n) :
          \E p \in {parse_logs(logs, [amount0 |-> amount0, amount1 |-> amount1,
                                      nft_token_id |-> nft_token_id])} :
              /\ opening_tx_hash' = IF parse_returns(p) THEN Some(LastTx.hash)
                                  ELSE opening_tx_hash
              /\ opening_receipt' = IF parse_returns(p)
                                  THEN Some([status |-> 1, logs |-> logs])
                                  ELSE opening_receipt
              /\ amount0' = p.amount0
              /\ amount1' = p.amount1
              /\ nft_token_id' = p.nft_token_id
              /\ pc' = "idle"
              /\ failed' = IF parse_returns(p) THEN failed ELSE failed \cup {"parse"}
              /\ outcome' = IF parse_returns(p)
                            THEN Returned(<<LastTx.hash>>)
                            ELSE Raised(OpWrap(op) \o
                                        <<"Error parsing mint receipt: AttributeError">>)
    /\ UNCHANGED <<sharing, queries, construction, pricing, managers, converter, params, start_pool_status, tick_spacing, current_tick,
                   op, calls, call_args, slot0, poolSpacing, wallet_nonces>>

\* Lines 211-217: the receipt is in, it is kept and parsed.
MintConfirmed ==
    /\ pc = "wait"
    /\ LastTx.kind = "mint"
    /\ allowance[token0_address] >= AmountOf("approve0")
    /\ allowance[token1_address] >= AmountOf("approve1")
    /\ Settle("success")
    /\ nonce' = nonce + 1
    /\ minted' = minted + 1
    /\ positions' = Append(positions,
                           [tickSpacing |-> LastTx.args.tickSpacing,
                            tickLower |-> LastTx.args.tickLower,
                            tickUpper |-> LastTx.args.tickUpper,
                            liquidity |-> MintedLiquidity(minted + 1),
                            burned |-> FALSE,
                            owed |-> FALSE])
    /\ allowance' = [t \in DOMAIN allowance |->
                        IF t = token0_address
                        THEN allowance[t] - AmountOf("approve0")
                        ELSE allowance[t] - AmountOf("approve1")]
    /\ \E n \in 0..MaxLogs : \E logs \in Receipts(minted + 1, n) :
          \E p \in {parse_logs(logs, [amount0 |-> amount0, amount1 |-> amount1,
                                      nft_token_id |-> nft_token_id])} :
              /\ opening_tx_hash' = Some(LastTx.hash)
              /\ opening_receipt' = Some([status |-> 1, logs |-> logs])
              /\ amount0' = p.amount0
              /\ amount1' = p.amount1
              /\ nft_token_id' = p.nft_token_id
              /\ pc' = "idle"
              /\ failed' = IF parse_returns(p) THEN failed ELSE failed \cup {"parse"}
              /\ outcome' = IF parse_returns(p)
                            THEN Returned(<<LastTx.hash>>)
                            ELSE Raised(OpWrap(op) \o
                                        <<"Error parsing mint receipt: AttributeError">>)
    /\ UNCHANGED <<sharing, queries, construction, pricing, managers, converter, params, start_pool_status, tick_spacing, current_tick,
                   op, calls, call_args, slot0, poolSpacing, wallet_nonces>>

\* ------------------------------------------------- close_liquidity_position
CallClose_refetches ==
    /\ \E args \in CallerArgs : Begin("close", "slot0", args)
    /\ UNCHANGED <<sharing, queries, construction, pricing, managers, converter, params, position, opening, chain, start_pool_status, tick_spacing>>

\* Lines 287-292: close_liquidity_position starts with decrease_liquidity.
CallClose ==
    /\ \E args \in CallerArgs : Begin("close", "decrease", args)
    /\ UNCHANGED <<sharing, queries, construction, pricing, managers, converter, params, position, opening, chain, start_pool_status, tick_spacing>>

CallDecrease ==
    /\ \E args \in CallerArgs : Begin("decrease", "decrease", args)
    /\ UNCHANGED <<sharing, queries, construction, pricing, managers, converter, params, position, opening, chain, start_pool_status, tick_spacing>>

CallCollect ==
    /\ \E args \in CallerArgs : Begin("collect", "collect", args)
    /\ UNCHANGED <<sharing, queries, construction, pricing, managers, converter, params, position, opening, chain, start_pool_status, tick_spacing>>

CallBurn ==
    /\ Begin("burn", "burn", NoArgs)
    /\ UNCHANGED <<sharing, queries, construction, pricing, managers, converter, params, position, opening, chain, start_pool_status, tick_spacing>>

\* self.nft_token_id is read (lines 288, 336, 383, 418) before the attribute
\* exists: AttributeError, caught by the except clause of the function that
\* read it.
MissingTokenId ==
    /\ pc \in {"decrease", "collect", "burn"}
    /\ ~HasTokenId
    /\ IF op = "close"
       THEN /\ pc' = "idle"
            /\ failed' = failed \cup {"close"}
            /\ outcome' = Raised(OpWrap(op) \o <<"AttributeError: nft_token_id">>)
       ELSE Raise(pc, <<"AttributeError: nft_token_id">>)
    /\ UNCHANGED <<sharing, queries, construction, pricing, managers, converter, params, position, opening, chain, start_pool_status,
                   tick_spacing, current_tick, op, calls, call_args, txs>>

\* Lines 336-352, up to the broadcast.
DecreaseSubmits ==
    /\ pc = "decrease"
    /\ HasTokenId
    /\ PositionExists(TokenIdArg)
    /\ Broadcast("decrease", TokenIdArg, decrease_params)
    /\ UNCHANGED <<sharing, queries, construction, pricing, managers, converter, params, position, opening, start_pool_status, tick_spacing,
                   current_tick, op, calls, call_args, outcome, failed,
                   slot0, poolSpacing, allowance, nonce, minted, positions>>

PositionsReadFails ==
    /\ pc = "decrease"
    /\ HasTokenId
    /\ Raise("decrease", <<"positions call failed">>)
    /\ UNCHANGED <<sharing, queries, construction, pricing, managers, converter, params, position, opening, chain, start_pool_status,
                   tick_spacing, current_tick, op, calls, call_args, txs>>

\* Lines 382-392, up to the broadcast.
CollectSubmits ==
    /\ pc = "collect"
    /\ HasTokenId
    /\ Broadcast("collect", TokenIdArg, collect_params)
    /\ UNCHANGED <<sharing, queries, construction, pricing, managers, converter, params, position, opening, start_pool_status, tick_spacing,
                   current_tick, op, calls, call_args, outcome, failed,
                   slot0, poolSpacing, allowance, nonce, minted, positions>>

BurnSubmits_prevalidates ==
    /\ pc = "burn"
    /\ HasTokenId
    /\ IF Burnable(TokenIdArg)
       THEN /\ Broadcast("burn", TokenIdArg, burn_arguments)
            /\ UNCHANGED <<outcome, failed, nonce>>
       ELSE /\ Raise("burn", <<"position still holds liquidity or tokens">>)
            /\ UNCHANGED <<txs, nonce, wallet_nonces>>
    /\ UNCHANGED <<sharing, queries, construction, pricing, managers, converter, params, position, opening, start_pool_status, tick_spacing,
                   current_tick, op, calls, call_args,
                   slot0, poolSpacing, allowance, minted, positions>>

\* Lines 418-420, up to the broadcast.
BurnSubmits ==
    /\ pc = "burn"
    /\ HasTokenId
    /\ Broadcast("burn", TokenIdArg, burn_arguments)
    /\ UNCHANGED <<sharing, queries, construction, pricing, managers, converter, params, position, opening, start_pool_status, tick_spacing,
                   current_tick, op, calls, call_args, outcome, failed,
                   slot0, poolSpacing, allowance, nonce, minted, positions>>

\* The step whose transaction is being built (pc) or awaited (the last one
\* broadcast).
ReadyToSend ==
    \/ pc \in {"approve0", "approve1"} /\ allowance[TokenOf(pc)] < AmountOf(pc)
    \/ pc = "mint"
    \/ pc \in {"decrease", "collect", "burn"} /\ HasTokenId

\* build_and_send_transaction, lines 407-418: reading the gas price or the
\* nonce, signing or sending raises; nothing was broadcast.
SendFails ==
    /\ ReadyToSend
    /\ Raise(pc, <<"Transaction failed", "send failed">>)
    /\ UNCHANGED <<sharing, queries, construction, pricing, managers, converter, params, position, opening, chain, start_pool_status,
                   tick_spacing, current_tick, op, calls, call_args, txs>>

TxTimesOut_retries ==
    /\ pc = "wait"
    /\ Settle("timeout")
    /\ pc' = LastTx.kind
    /\ UNCHANGED <<sharing, queries, construction, pricing, managers, converter, params, position, opening, chain, start_pool_status,
                   tick_spacing, current_tick, op, calls, call_args, outcome, failed>>

\* Line 420: no receipt within the timeout.
TxTimesOut ==
    /\ pc = "wait"
    /\ Settle("timeout")
    /\ Raise(LastTx.kind, <<"Transaction failed", "TimeExhausted">>)
    /\ UNCHANGED <<sharing, queries, construction, pricing, managers, converter, params, position, opening, chain, start_pool_status,
                   tick_spacing, current_tick, op, calls, call_args>>

TxReverted_unchecked ==
    /\ pc = "wait"
    /\ Settle("revert")
    /\ nonce' = nonce + 1
    /\ pc' = "idle"
    /\ outcome' = Returned(<<LastTx.hash>>)
    /\ UNCHANGED <<sharing, queries, construction, pricing, managers, converter, params, position, opening, start_pool_status,
                   tick_spacing, current_tick, op, calls, call_args, failed,
                   slot0, poolSpacing, wallet_nonces, allowance, minted, positions>>

TxReverted_clears_position ==
    /\ pc = "wait"
    /\ Settle("revert")
    /\ nonce' = nonce + 1
    /\ Raise(LastTx.kind, <<"Transaction failed", "Minting liquidity failed.">>)
    /\ nft_token_id' = None /\ amount0' = None /\ amount1' = None
    /\ UNCHANGED <<sharing, queries, construction, pricing, managers, converter, params, opening, start_pool_status, tick_spacing,
                   current_tick, op, calls, call_args,
                   slot0, poolSpacing, wallet_nonces, allowance, minted, positions>>

\* Lines 426-427: the receipt's status is not 1.
TxReverted ==
    /\ pc = "wait"
    /\ Settle("revert")
    /\ nonce' = nonce + 1
    /\ Raise(LastTx.kind, <<"Transaction failed", "Minting liquidity failed.">>)
    /\ UNCHANGED <<sharing, queries, construction, pricing, managers, converter, params, position, opening, start_pool_status, tick_spacing,
                   current_tick, op, calls, call_args,
                   slot0, poolSpacing, wallet_nonces, allowance, minted, positions>>

\* decrease_liquidity returns its hash (lines 352-355); close goes on to
\* collect_fees (line 296).
DecreaseConfirmed ==
    /\ pc = "wait"
    /\ LastTx.kind = "decrease"
    /\ Settle("success")
    /\ nonce' = nonce + 1
    /\ positions' = [positions EXCEPT ![LastTx.tokenId] =
                         [@ EXCEPT !.liquidity = @ - LastTx.args.liquidity,
                                   !.owed = TRUE]]
    /\ IF op = "close"
       THEN pc' = "collect" /\ outcome' = outcome
       ELSE pc' = "idle" /\ outcome' = Returned(<<LastTx.hash>>)
    /\ UNCHANGED <<sharing, queries, construction, pricing, managers, converter, params, position, opening, start_pool_status, tick_spacing,
                   current_tick, op, calls, call_args, failed,
                   slot0, poolSpacing, wallet_nonces, allowance, minted>>

\* collect_fees returns its hash (lines 392-395); close goes on to burn_nft
\* (line 300).
CollectConfirmed ==
    /\ pc = "wait"
    /\ LastTx.kind = "collect"
    /\ PositionExists(LastTx.tokenId)
    /\ Settle("success")
    /\ nonce' = nonce + 1
    /\ positions' = [positions EXCEPT ![LastTx.tokenId].owed = FALSE]
    /\ IF op = "close"
       THEN pc' = "burn" /\ outcome' = outcome
       ELSE pc' = "idle" /\ outcome' = Returned(<<LastTx.hash>>)
    /\ UNCHANGED <<sharing, queries, construction, pricing, managers, converter, params, position, opening, start_pool_status, tick_spacing,
                   current_tick, op, calls, call_args, failed,
                   slot0, poolSpacing, wallet_nonces, allowance, minted>>

BurnConfirmed_clears_position ==
    /\ pc = "wait"
    /\ LastTx.kind = "burn"
    /\ Burnable(LastTx.tokenId)
    /\ Settle("success")
    /\ nonce' = nonce + 1
    /\ positions' = [positions EXCEPT ![LastTx.tokenId].burned = TRUE]
    /\ pc' = "idle"
    /\ nft_token_id' = None /\ amount0' = None /\ amount1' = None
    /\ outcome' = IF op = "close"
                  THEN Returned(<<[decrease_liquidity_tx |-> HashOf("decrease"),
                                   collect_fees_tx |-> HashOf("collect"),
                                   burn_nft_tx |-> LastTx.hash]>>)
                  ELSE Returned(<<LastTx.hash>>)
    /\ UNCHANGED <<sharing, queries, construction, pricing, managers, converter, params, opening, start_pool_status, tick_spacing,
                   current_tick, op, calls, call_args, failed,
                   slot0, poolSpacing, wallet_nonces, allowance, minted>>

\* burn_nft returns its hash (lines 420-423); close returns the summary of
\* lines 303-309.
BurnConfirmed ==
    /\ pc = "wait"
    /\ LastTx.kind = "burn"
    /\ Burnable(LastTx.tokenId)
    /\ Settle("success")
    /\ nonce' = nonce + 1
    /\ positions' = [positions EXCEPT ![LastTx.tokenId].burned = TRUE]
    /\ pc' = "idle"
    /\ outcome' = IF op = "close"
                  THEN Returned(<<[decrease_liquidity_tx |-> HashOf("decrease"),
                                   collect_fees_tx |-> HashOf("collect"),
                                   burn_nft_tx |-> LastTx.hash]>>)
                  ELSE Returned(<<LastTx.hash>>)
    /\ UNCHANGED <<sharing, queries, construction, pricing, managers, converter, params, position, opening, start_pool_status, tick_spacing,
                   current_tick, op, calls, call_args, failed,
                   slot0, poolSpacing, wallet_nonces, allowance, minted>>

Next ==
    \/ CallOpen
    \/ CallClose
    \/ CallDecrease
    \/ CallCollect
    \/ CallBurn
    \/ ReadSlot0
    \/ ReadSlot0Fails
    \/ ReadTickSpacing
    \/ ReadTickSpacingFails
    \/ GetPoolStatusReturns
    \/ GetCurrentPriceFails
    \/ ApproveSkips
    \/ ApproveSubmits
    \/ AllowanceReadFails
    \/ ApproveConfirmed
    \/ MintSubmits
    \/ MintConfirmed
    \/ MissingTokenId
    \/ DecreaseSubmits
    \/ PositionsReadFails
    \/ CollectSubmits
    \/ BurnSubmits
    \/ SendFails
    \/ TxTimesOut
    \/ TxReverted
    \/ DecreaseConfirmed
    \/ CollectConfirmed
    \/ BurnConfirmed

Spec == Init /\ [][Next]_vars

\* ------------------------------------------------------- several instances
\* Whole operations called on one instance or the other, in any order.
\* A receipt with the two token transfers and the NFT contract's two-topic log.
FullReceipt(id) ==
    CHOOSE logs \in Receipts(id, 3) :
        parse_returns(parse_logs(logs, [amount0 |-> None, amount1 |-> None,
                                        nft_token_id |-> None]))

SetAttributes_on_class(i, attrs) ==
    managers' = [j \in Instances |->
                    [attrs EXCEPT !.calls = IF j = i THEN managers[i].calls + 1
                                            ELSE managers[j].calls]]

\* self.<attribute> = value: the attributes are those of the instance the
\* operation was called on, which has one more call behind it.
SetAttributes(i, attrs) ==
    managers' = [managers EXCEPT ![i] = [attrs EXCEPT !.calls = managers[i].calls + 1]]

\* The approvals that open has to submit.
ShortAllowances ==
    {t \in {"approve0", "approve1"} : allowance[TokenOf(t)] < AmountOf(t)}

\* open_liquidity_position (lines 179-217) succeeds: pool status, the approvals
\* that are needed, mint, receipt kept and parsed.  The mint takes the
\* allowance that was there or that was approved.
ManagerOpens(i) ==
    /\ managers[i].calls < MaxCalls
    /\ \E id \in {minted + 1} : \E logs \in {FullReceipt(id)} :
          \E p \in {parse_logs(logs, [amount0 |-> managers[i].amount0,
                                      amount1 |-> managers[i].amount1,
                                      nft_token_id |-> managers[i].nft_token_id])} :
          \E t \in {pool_ticks(slot0, poolSpacing, lower_range_percentage,
                               upper_range_percentage)} :
              /\ SetAttributes(i,
                     [managers[i] EXCEPT
                         !.nft_token_id = p.nft_token_id,
                         !.amount0 = p.amount0,
                         !.amount1 = p.amount1,
                         !.start_pool_status =
                             Some(pool_status(slot0, poolSpacing, lower_range_percentage,
                                              upper_range_percentage, slot0)),
                         !.tick_spacing = Some(poolSpacing),
                         !.opening_tx_hash = Some(<<i, managers[i].calls + 1>>),
                         !.opening_receipt = Some([status |-> 1, logs |-> logs])])
              /\ wallet_nonces' = wallet_nonces \o
                     [k \in 1..(Cardinality(ShortAllowances) + 1) |-> nonce + k - 1]
              /\ nonce' = nonce + Cardinality(ShortAllowances) + 1
              /\ minted' = id
              /\ positions' = Append(positions,
                                     [tickSpacing |-> poolSpacing,
                                      tickLower |-> t.lower_tick,
                                      tickUpper |-> t.upper_tick,
                                      liquidity |-> MintedLiquidity(id),
                                      burned |-> FALSE,
                                      owed |-> FALSE])
              /\ allowance' = [a \in DOMAIN allowance |-> 0]
    /\ UNCHANGED <<sharing, queries, construction, pricing, converter, params, position, opening, start_pool_status, tick_spacing,
                   current_tick, pc, op, calls, call_args, txs, outcome, failed,
                   slot0, poolSpacing>>

\* open_liquidity_position fails after line 179: the pool status was assigned,
\* an allowance read raised, nothing was broadcast.
ManagerOpenFails(i) ==
    /\ managers[i].calls < MaxCalls
    /\ SetAttributes(i,
           [managers[i] EXCEPT
               !.start_pool_status =
                   Some(pool_status(slot0, poolSpacing, lower_range_percentage,
                                    upper_range_percentage, slot0)),
               !.tick_spacing = Some(poolSpacing)])
    /\ UNCHANGED <<sharing, queries, construction, pricing, converter, params, position, opening, chain, start_pool_status,
                   tick_spacing, current_tick, pc, op, calls, call_args, txs, outcome,
                   failed>>

\* close_liquidity_position (lines 287-309) succeeds: decrease, collect and
\* burn of the instance's own position.
ManagerCloses(i) ==
    /\ managers[i].calls < MaxCalls
    /\ Has(managers[i].nft_token_id)
    /\ PositionExists(Val(managers[i].nft_token_id))
    /\ SetAttributes(i, managers[i])
    /\ positions' = [positions EXCEPT ![Val(managers[i].nft_token_id)] =
                         [@ EXCEPT !.liquidity = 0, !.owed = FALSE, !.burned = TRUE]]
    /\ wallet_nonces' = wallet_nonces \o <<nonce, nonce + 1, nonce + 2>>
    /\ nonce' = nonce + 3
    /\ UNCHANGED <<sharing, queries, construction, pricing, converter, params, position, opening, start_pool_status,
                   tick_spacing, current_tick, pc, op, calls, call_args, txs, outcome,
                   failed, slot0, poolSpacing, allowance, minted>>

\* close_liquidity_position fails at line 288 (no nft_token_id) or at the
\* positions read of a position that was burned (line 336).
ManagerCloseFails(i) ==
    /\ managers[i].calls < MaxCalls
    /\ ~(Has(managers[i].nft_token_id) /\ PositionExists(Val(managers[i].nft_token_id)))
    /\ SetAttributes(i, managers[i])
    /\ UNCHANGED <<sharing, queries, construction, pricing, converter, params, position, opening, chain, start_pool_status,
                   tick_spacing, current_tick, pc, op, calls, call_args, txs, outcome,
                   failed>>

NextTwo ==
    \/ \E i \in Instances : ManagerOpens(i)
    \/ \E i \in Instances : ManagerOpenFails(i)
    \/ \E i \in Instances : ManagerCloses(i)
    \/ \E i \in Instances : ManagerCloseFails(i)

SpecTwo == Init /\ [][NextTwo]_vars

\* ------------------------------------------ the manager after a full lifecycle
\* The manager and the chain after one open_liquidity_position and one
\* close_liquidity_position that both returned: position 1 is burned, six
\* transactions were mined, the attributes are those the open recorded.  The
\* calls that follow are counted from 0 again; the two before are calls -1
\* and 0.
InitReclosed ==
    /\ NoQuery
    /\ NoSharing
    /\ Constructed
    /\ NoConversion
    /\ NoPricing
    /\ lower_range_percentage = MaxUnits
    /\ upper_range_percentage = MaxUnits
    /\ poolSpacing = MaxSpacing
    /\ slot0 = -1
    /\ \E p \in {parse_logs(FullReceipt(1), [amount0 |-> None, amount1 |-> None,
                                              nft_token_id |-> None])} :
          /\ nft_token_id = p.nft_token_id
          /\ amount0 = p.amount0
          /\ amount1 = p.amount1
    /\ start_pool_status = Some(pool_status(slot0, poolSpacing, lower_range_percentage,
                                            upper_range_percentage, slot0))
    /\ tick_spacing = Some(poolSpacing)
    /\ opening_tx_hash = Some(<<-1, 3>>)
    /\ opening_receipt = Some([status |-> 1, logs |-> FullReceipt(1)])
    /\ current_tick = None
    /\ pc = "idle" /\ op = "none" /\ calls = 0
    /\ txs = <<>> /\ outcome = NoOutcome /\ failed = {}
    /\ allowance = [t \in {token0_address, token1_address} |-> 0]
    /\ nonce = 6 /\ minted = 1 /\ wallet_nonces = <<0, 1, 2, 3, 4, 5>>
    /\ positions = <<[tickSpacing |-> poolSpacing,
                      tickLower |-> Val(start_pool_status).lower_tick,
                      tickUpper |-> Val(start_pool_status).upper_tick,
                      liquidity |-> 0,
                      burned |-> TRUE,
                      owed |-> FALSE]>>
    /\ call_args = NoArgs
    /\ managers = [i \in Instances |-> NewManager]

\* Every step of Next but MissingTokenId: nft_token_id exists and nothing
\* removes it.
NextReclosed ==
    \/ CallOpen
    \/ CallClose
    \/ CallDecrease
    \/ CallCollect
    \/ CallBurn
    \/ ReadSlot0
    \/ ReadSlot0Fails
    \/ ReadTickSpacing
    \/ ReadTickSpacingFails
    \/ GetPoolStatusReturns
    \/ GetCurrentPriceFails
    \/ ApproveSkips
    \/ ApproveSubmits
    \/ AllowanceReadFails
    \/ ApproveConfirmed
    \/ MintSubmits
    \/ MintConfirmed
    \/ DecreaseSubmits
    \/ PositionsReadFails
    \/ CollectSubmits
    \/ BurnSubmits
    \/ SendFails
    \/ TxTimesOut
    \/ TxReverted
    \/ DecreaseConfirmed
    \/ CollectConfirmed
    \/ BurnConfirmed

SpecReclosed == InitReclosed /\ [][NextReclosed]_vars

\* ================================================================== claims
\* The statuses get_pool_status has computed that are still to be seen: the
\* one returned to a direct caller, the one open keeps as start_pool_status.
ComputedStatuses ==
    (IF op = "get_pool_status" /\ outcome.status = "returned"
     THEN {outcome.value[1]} ELSE {})
    \cup (IF Has(start_pool_status) THEN {Val(start_pool_status)} ELSE {})

Kinds == [i \in 1..Len(txs) |-> txs[i].kind]

\* C1: within one close_liquidity_position call, once decrease_liquidity has
\* failed no collect or burn transaction exists and the call is over, and once
\* collect_fees has failed no burn transaction exists and the call is over.
C1_CloseStopsAtFailedStep ==
    op = "close" =>
        /\ "decrease" \in failed =>
              /\ pc = "idle"
              /\ \A i \in 1..Len(txs) : txs[i].kind \notin {"collect", "burn"}
        /\ "collect" \in failed =>
              /\ pc = "idle"
              /\ \A i \in 1..Len(txs) : txs[i].kind # "burn"

C1_Witness ==
    /\ op = "close"
    /\ "decrease" \in failed
    /\ Len(txs) = 1
    /\ txs[1].kind = "decrease"
    /\ txs[1].status = "revert"

\* C2: while no nft_token_id is recorded, a call of close_liquidity_position,
\* decrease_liquidity, collect_fees or burn_nft broadcasts no transaction and
\* ends by raising.
C2_NoTokenIdNoTransaction ==
    (op \in {"close", "decrease", "collect", "burn"} /\ ~Has(nft_token_id)) =>
        /\ txs = <<>>
        /\ pc # "wait"
        /\ pc = "idle" => outcome.status = "raised"

C2_Witness ==
    /\ op = "close"
    /\ ~Has(nft_token_id)
    /\ pc = "idle"
    /\ outcome.status = "raised"
    /\ calls = 2

\* C3: the lower_tick and upper_tick of every status get_pool_status computes
\* are multiples of the tick spacing read in that call.
C3_TicksAligned ==
    \A st \in ComputedStatuses :
        /\ st.lower_tick % Val(tick_spacing) = 0
        /\ st.upper_tick % Val(tick_spacing) = 0

C3_Witness ==
    /\ op = "get_pool_status"
    /\ outcome.status = "returned"
    /\ outcome.value[1].current_tick = -3
    /\ Val(tick_spacing) = 2
    /\ outcome.value[1].lower_tick = -6
    /\ outcome.value[1].upper_tick = 0

\* C4 as claimed: the current tick lies strictly between lower_tick and
\* upper_tick.
C4_StrictlyInside ==
    \A st \in ComputedStatuses :
        st.lower_tick < st.current_tick /\ st.current_tick < st.upper_tick

\* C4 as amended: lower_tick <= current_tick < upper_tick, and lower_tick
\* equals current_tick exactly when the lower range units are 0 and the
\* current tick is a multiple of the tick spacing.
C4_InsideHalfOpen ==
    \A st \in ComputedStatuses :
        /\ st.lower_tick <= st.current_tick
        /\ st.current_tick < st.upper_tick
        /\ st.lower_tick = st.current_tick <=>
              (lower_range_percentage = 0 /\ st.current_tick % Val(tick_spacing) = 0)

C4_Witness ==
    /\ op = "get_pool_status"
    /\ outcome.status = "returned"
    /\ lower_range_percentage = 0
    /\ upper_range_percentage = 0
    /\ Val(tick_spacing) = 2
    /\ outcome.value[1].current_tick = -2
    /\ outcome.value[1].lower_tick = -2
    /\ outcome.value[1].upper_tick = 0

\* C5: lower_tick = S*floor(t/S) - lowerUnits*S and upper_tick =
\* S*floor(t/S) + S + upperUnits*S, floor rounding toward minus infinity.
C5_ReferenceFormula ==
    \A st \in ComputedStatuses :
        LET S == Val(tick_spacing)
            floor == st.current_tick \div S
        IN  /\ st.lower_tick = S * floor - lower_range_percentage * S
            /\ st.upper_tick = S * floor + S + upper_range_percentage * S

C5_Witness ==
    /\ op = "get_pool_status"
    /\ outcome.status = "returned"
    /\ Val(tick_spacing) = 100
    /\ lower_range_percentage = 3
    /\ upper_range_percentage = 3
    /\ outcome.value[1].current_tick = -250
    /\ outcome.value[1].lower_tick = -600
    /\ outcome.value[1].upper_tick = 100

\* parse_opening_receipt has just run on opening_receipt: the mint of this
\* open call was confirmed.
ParsedInThisCall ==
    /\ op = "open"
    /\ pc = "idle"
    /\ Len(txs) > 0
    /\ LastTx.kind = "mint"
    /\ LastTx.status = "success"

HasNftLog(logs) ==
    \E i \in 1..Len(logs) :
        logs[i].address = nft_address /\ Len(logs[i].topics) = 2

\* C6: a parse of a receipt without a two-topic log of the NFT contract
\* raises.
C6_ParseWithoutNftLogRaises ==
    (ParsedInThisCall /\ ~HasNftLog(Val(opening_receipt).logs)) =>
        outcome.status = "raised"

\* C7: once nft_token_id is present no step of any operation changes it.
C7_NeverReassigned ==
    [][Has(nft_token_id) => nft_token_id' = nft_token_id]_vars

\* C8: amount0, amount1 and nft_token_id are all recorded or none is.
C8_AllOrNone ==
    \/ Has(amount0) /\ Has(amount1) /\ Has(nft_token_id)
    \/ ~Has(amount0) /\ ~Has(amount1) /\ ~Has(nft_token_id)

\* C9: a step of an open call that neither returns nor fails in the parse
\* (so every step up to a failure of the pool read, of an approval, of the
\* mint submission or of the mint receipt) leaves nft_token_id, amount0 and
\* amount1 as they were; and whenever the manager is idle open can be called.
C9_FailedOpenRecordsNothing ==
    /\ [][(op' = "open" /\ "parse" \notin failed' /\ outcome'.status # "returned")
            => position' = position]_vars
    /\ [](pc = "idle" /\ calls < MaxCalls => ENABLED CallOpen)

C9_Witness ==
    /\ op = "open"
    /\ pc = "idle"
    /\ outcome.status = "raised"
    /\ "mint" \in failed
    /\ Len(txs) > 0
    /\ LastTx.kind = "mint"
    /\ LastTx.status = "revert"
    /\ nft_token_id = Some(1)
    /\ Has(amount0)
    /\ Has(amount1)

\* C10: the transactions of a close call are decrease, collect, burn in this
\* order, each broadcast only after the one before it succeeded, and the call
\* returns only after all three succeeded, with their three hashes.
C10_CloseOrder ==
    op = "close" =>
        /\ Len(txs) <= 3
        /\ Kinds = SubSeq(<<"decrease", "collect", "burn">>, 1, Len(txs))
        /\ \A i \in 1..(Len(txs) - 1) : txs[i].status = "success"
        /\ outcome.status = "returned" =>
              /\ Len(txs) = 3
              /\ \A i \in 1..3 : txs[i].status = "success"
              /\ outcome.value = <<[decrease_liquidity_tx |-> txs[1].hash,
                                    collect_fees_tx |-> txs[2].hash,
                                    burn_nft_tx |-> txs[3].hash]>>
              /\ txs[1].hash # txs[2].hash
              /\ txs[2].hash # txs[3].hash
              /\ txs[1].hash # txs[3].hash

C10_Witness ==
    /\ op = "close"
    /\ outcome.status = "returned"
    /\ Len(txs) = 3

Succeeded == {i \in 1..Len(txs) : txs[i].status = "success"}

\* C11: within one open or close call no transaction kind is broadcast twice,
\* a transaction that reverted or timed out is the last one of the call, a
\* failed step ends the call, and what was confirmed stays on the chain: the
\* wallet's nonce counts it and an approved allowance is still there.
C11_NoRetryNoRollback ==
    op \in {"open", "close"} =>
        /\ \A i, j \in 1..Len(txs) : i # j => txs[i].kind # txs[j].kind
        /\ \A i \in 1..(Len(txs) - 1) : txs[i].status = "success"
        /\ failed # {} => pc = "idle"
        /\ Cardinality(Succeeded) <= nonce
        /\ \A i \in Succeeded :
              (txs[i].kind \in {"approve0", "approve1"} /\ failed \ {"parse"} # {})
                  => allowance[TokenOf(txs[i].kind)] = AmountOf(txs[i].kind)

C11_Witness ==
    /\ op = "close"
    /\ pc = "idle"
    /\ Len(txs) = 2
    /\ txs[1].status = "success"
    /\ txs[2].kind = "collect"
    /\ txs[2].status = "timeout"
    /\ outcome.status = "raised"

PoolReadSteps == {"slot0", "tickSpacing", "current_price"}

\* C12: a mint transaction of an open call exists only after the pool status
\* of that call was captured and both approvals returned, token0's before
\* token1's, each confirmed or skipped on a sufficient allowance; a failed
\* pool read or approval means the call has no mint transaction.
C12_MintAfterStatusAndApprovals ==
    (op = "open" /\ \E i \in 1..Len(txs) : txs[i].kind = "mint") =>
        /\ failed \cap (PoolReadSteps \cup {"approve0", "approve1"}) = {}
        /\ Has(current_tick)
        /\ Has(start_pool_status)
        /\ Val(start_pool_status).current_tick = Val(current_tick)
        /\ Kinds \in {<<"mint">>, <<"approve0", "mint">>, <<"approve1", "mint">>,
                      <<"approve0", "approve1", "mint">>}
        /\ \A i \in 1..(Len(txs) - 1) : txs[i].status = "success"
        /\ LastTx.status = "pending" =>
              /\ allowance[token0_address] >= AmountOf("approve0")
              /\ allowance[token1_address] >= AmountOf("approve1")

C12_Witness ==
    /\ op = "open"
    /\ calls = 2
    /\ pc = "wait"
    /\ Kinds = <<"approve1", "mint">>
    /\ LastTx.status = "pending"

\* C13: the error a failed close raises carries, as its cause, the message of
\* the sub-step that failed, and the three sub-steps have different messages.
C13_ErrorNamesFailedStep ==
    (op = "close" /\ outcome.status = "raised") =>
        /\ outcome.errors[1] = "Failed to close liquidity position."
        /\ Len(outcome.errors) >= 2
        /\ "decrease" \in failed <=> outcome.errors[2] = "Failed to decrease liquidity."
        /\ "collect" \in failed <=> outcome.errors[2] = "Failed to collect fees."
        /\ "burn" \in failed <=> outcome.errors[2] = "Failed to burn NFT."

C13_Witness ==
    /\ op = "close"
    /\ outcome.status = "raised"
    /\ failed = {"collect"}
    /\ Len(txs) = 2
    /\ txs[2].status = "revert"
    /\ outcome.errors[2] = "Failed to collect fees."

\* x * 10^d is a whole number: x has at most d fractional digits.
FitsDecimals(x, d) == (x.digits * Pow10(d)) % Pow10(x.frac) = 0

\* C14: to_human_readable(to_blockchain_unit(x, d), d) = x for every amount x
\* with at most d fractional digits.
C14_RoundTrip ==
    (Has(conv_human) /\ FitsDecimals(Val(conv_amount), Val(conv_decimals))) =>
        Val(conv_human) = Float(Val(conv_amount))

\* The step in which the receipt of the confirmed mint is stored and parsed.
ParseStep ==
    /\ pc = "wait"
    /\ LastTx.kind = "mint"
    /\ pc' = "idle"
    /\ txs'[Len(txs')].status = "success"

\* The unsigned big-endian integer in two bytes.
BigEndian(bytes) == 256 * bytes[1] + bytes[2]

\* `after` is what parsing `logs` makes of the amount that was `before`: the
\* data of the last log of the token, over 10^decimals, as a float.
AmountParsed(logs, token, decimals, before, after) ==
    LET idx == {i \in 1..Len(logs) : logs[i].address = token}
    IN  IF idx = {} THEN after = before
        ELSE LET last == CHOOSE i \in idx : \A j \in idx : j <= i
             IN  after = Some(ToFloat([num |-> BigEndian(logs[last].data),
                                       den |-> Pow10(decimals)]))

\* C15: parsing the opening receipt sets amount0 (amount1) to the data of the
\* last log of token0 (token1), decoded big-endian and divided by 10^decimals;
\* logs of other addresses leave the amounts alone, and so does every other
\* step.
C15_AmountsFromLastTokenLog ==
    [][IF ParseStep
       THEN /\ AmountParsed(Val(opening_receipt').logs, token0_address,
                            token0_decimals, amount0, amount0')
            /\ AmountParsed(Val(opening_receipt').logs, token1_address,
                            token1_decimals, amount1, amount1')
       ELSE amount0' = amount0 /\ amount1' = amount1]_vars

C15_Witness ==
    /\ ParsedInThisCall
    /\ Len(Val(opening_receipt).logs) = 3
    /\ Val(opening_receipt).logs[1].address = token0_address
    /\ Val(opening_receipt).logs[2].address = token0_address
    /\ Val(opening_receipt).logs[3].address = nft_address
    /\ BigEndian(Val(opening_receipt).logs[1].data) = 0
    /\ BigEndian(Val(opening_receipt).logs[2].data) = 9
    /\ amount0 = Some(ToFloat([num |-> 9, den |-> 1000]))
    /\ amount0 # Some(ToFloat([num |-> 0, den |-> 1]))

\* C16: parsing the opening receipt sets nft_token_id to the second topic,
\* decoded big-endian, of the (last) log of the NFT contract that has exactly
\* two topics; without such a log the parse leaves it alone, whatever other
\* logs the receipt holds, and so does every other step.
C16_TokenIdFromTwoTopicNftLog ==
    [][IF ParseStep
       THEN LET logs == Val(opening_receipt').logs
                idx == {i \in 1..Len(logs) :
                           logs[i].address = nft_address /\ Len(logs[i].topics) = 2}
            IN  IF idx = {} THEN nft_token_id' = nft_token_id
                ELSE LET last == CHOOSE i \in idx : \A j \in idx : j <= i
                     IN  nft_token_id' = Some(BigEndian(logs[last].topics[2]))
       ELSE nft_token_id' = nft_token_id]_vars

C16_Witness ==
    /\ ParsedInThisCall
    /\ calls = 2
    /\ Len(Val(opening_receipt).logs) = 3
    /\ Val(opening_receipt).logs[1].address = nft_address
    /\ Len(Val(opening_receipt).logs[1].topics) = 2
    /\ Val(opening_receipt).logs[2].address = nft_address
    /\ Len(Val(opening_receipt).logs[2].topics) = 4
    /\ Val(opening_receipt).logs[3].address = token1_address
    /\ nft_token_id = Some(2)

\* C17: the mint transaction of an open call carries the lower and upper tick
\* of the start_pool_status captured in that call and the tick spacing read in
\* that capture, the base-unit conversions of token0_max and token1_max as
\* desired amounts, zero minimums, the wallet as recipient, and as deadline
\* the latest block timestamp at submission plus 180 seconds.
C17_MintArguments ==
    \A i \in 1..Len(txs) :
        txs[i].kind = "mint" =>
            /\ Val(start_pool_status).current_tick = Val(current_tick)
            /\ txs[i].args.tickLower = Val(start_pool_status).lower_tick
            /\ txs[i].args.tickUpper = Val(start_pool_status).upper_tick
            /\ txs[i].args.tickSpacing = Val(tick_spacing)
            /\ txs[i].args.tickSpacing = poolSpacing
            /\ txs[i].args.amount0Desired = to_blockchain_unit(token0_max, token0_decimals)
            /\ txs[i].args.amount1Desired = to_blockchain_unit(token1_max, token1_decimals)
            /\ txs[i].args.amount0Min = 0
            /\ txs[i].args.amount1Min = 0
            /\ txs[i].args.recipient = public_address
            /\ txs[i].args.deadline = txs[i].nonce + 180

C17_Witness ==
    /\ op = "open"
    /\ pc = "wait"
    /\ LastTx.kind = "mint"
    /\ LastTx.nonce = 2
    /\ LastTx.args.tickSpacing = 2
    /\ LastTx.args.tickLower = -4
    /\ LastTx.args.tickUpper = 2
    /\ LastTx.args.amount0Desired = 9
    /\ LastTx.args.amount1Desired = 30
    /\ LastTx.args.deadline = 182

\* C18: a transaction whose receipt has a status other than success ends its
\* call with an error and is the call's last; a call that returns a hash
\* returns the hash of a transaction that succeeded; and an open whose mint
\* reverted keeps no receipt of it and parses none.
C18_OnlySuccessReturns ==
    /\ \A i \in 1..Len(txs) :
          txs[i].status = "revert" =>
              /\ i = Len(txs)
              /\ pc = "idle"
              /\ outcome.status = "raised"
              /\ txs[i].kind \in failed
    /\ (op \in {"open", "decrease", "collect", "burn"} /\ outcome.status = "returned") =>
          \E i \in 1..Len(txs) :
              txs[i].status = "success" /\ outcome.value = <<txs[i].hash>>
    /\ (op = "open" /\ Len(txs) > 0 /\ LastTx.kind = "mint" /\ LastTx.status = "revert") =>
          /\ "parse" \notin failed
          /\ opening_tx_hash # Some(LastTx.hash)
    /\ Has(opening_receipt) => Val(opening_receipt).status = 1

C18_Witness ==
    /\ op = "open"
    /\ calls = 1
    /\ pc = "idle"
    /\ Len(txs) = 3
    /\ LastTx.kind = "mint"
    /\ LastTx.status = "revert"
    /\ outcome.status = "raised"
    /\ ~Has(opening_receipt)
    /\ ~Has(nft_token_id)

C20_ApproveIffAllowanceShort ==
    [][(pc \in {"approve0", "approve1"}) =>
         (LET short == allowance[TokenOf(pc)] < AmountOf(pc)
          IN  /\ Len(txs') > Len(txs) =>
                    /\ short
                    /\ txs' = Append(txs, txs'[Len(txs')])
                    /\ txs'[Len(txs')].kind = pc
                    /\ txs'[Len(txs')].args =
                           [spender |-> nft_address, amount |-> AmountOf(pc)]
              /\ (short /\ pc \notin failed') => Len(txs') = Len(txs) + 1
              /\ (~short /\ pc \notin failed') =>
                    /\ txs' = txs
                    /\ pc' = IF pc = "approve0" THEN "approve1" ELSE "mint"
                    /\ outcome' = outcome)]_vars

C20_Witness ==
    /\ op = "open"
    /\ calls = 2
    /\ pc = "approve1"
    /\ txs = <<>>
    /\ failed = {}
    /\ allowance[token0_address] = AmountOf("approve0")
    /\ allowance[token1_address] < AmountOf("approve1")

\* C21: the transactions the wallet broadcasts during the lifecycle carry
\* strictly increasing nonces, so that no nonce is used twice.
C21_NoncesStrictlyIncrease ==
    \A i, j \in 1..Len(wallet_nonces) : i < j => wallet_nonces[i] < wallet_nonces[j]

\* The transactions of the call that were broadcast and for which neither a
\* receipt nor the timeout error has come yet.
Awaited == {i \in 1..Len(txs) : txs[i].status = "pending"}

ClosePhase == {"close", "decrease", "collect", "burn"}

\* C23: no step of a close-phase operation reads the pool (slot0, tickSpacing,
\* current price) or changes start_pool_status: what open captured is kept.
C23_ClosePhaseKeepsStartStatus ==
    [][(op' \in ClosePhase) =>
          /\ start_pool_status' = start_pool_status
          /\ tick_spacing' = tick_spacing
          /\ current_tick' = None
          /\ pc' \notin PoolReadSteps]_vars

C23_Witness ==
    /\ op = "close"
    /\ pc = "idle"
    /\ outcome.status = "returned"
    /\ calls = 2
    /\ Has(start_pool_status)
    /\ Has(opening_tx_hash)

\* C24: when a read of get_pool_status (slot0, tickSpacing, the slot0 read of
\* the current price) fails, the call ends by raising: no status is returned
\* or kept as start_pool_status, and no transaction was broadcast.
C24_PoolReadErrorRaises ==
    [][((failed' \cap PoolReadSteps) # {}) =>
          /\ pc' = "idle"
          /\ outcome'.status = "raised"
          /\ outcome'.value = <<>>
          /\ start_pool_status' = start_pool_status
          /\ txs' = <<>>]_vars

C24_Witness ==
    /\ op = "open"
    /\ "tickSpacing" \in failed
    /\ Has(current_tick)
    /\ pc = "idle"
    /\ outcome.status = "raised"
    /\ wallet_nonces = <<>>

\* C25: in open_liquidity_position and close_liquidity_position, once an
\* inner read or transaction has failed the call is over with an error raised
\* to the caller; a call that returned a result had no failure and every
\* transaction it broadcast succeeded.
C25_FailuresPropagate ==
    op \in {"open", "close"} =>
        /\ failed # {} =>
              /\ pc = "idle"
              /\ outcome.status = "raised"
              /\ outcome.errors # <<>>
              /\ Head(outcome.errors) = Head(OpWrap(op))
        /\ outcome.status = "returned" =>
              /\ failed = {}
              /\ Succeeded = 1..Len(txs)

C25_Witness ==
    /\ op = "close"
    /\ "burn" \in failed
    /\ Len(txs) = 3
    /\ txs[1].status = "success" /\ txs[2].status = "success"
    /\ txs[3].status = "revert"
    /\ outcome.status = "raised"

\* C26: a close_liquidity_position call fails with an error of the kind
\* ValidationError exactly when it fails for the missing position id; its
\* failures for a chain read error or a reverted transaction are of other
\* kinds.
C26_MissingIdIsValidationKind ==
    (op = "close" /\ outcome.status = "raised") =>
        (RaisedType = "ValidationError" <=> ~Has(nft_token_id))

\* C27: an operation called on one instance changes no position attribute of
\* another instance: whatever instance has no further call behind it after a
\* step has all its attributes as before.
C27_InstancesOwnTheirState ==
    [][\A i \in Instances :
          (managers'[i].calls = managers[i].calls) => managers'[i] = managers[i]]_vars

C27_Witness ==
    /\ managers["first"].nft_token_id = Some(2)
    /\ managers["second"].nft_token_id = Some(1)
    /\ managers["first"].calls = 2
    /\ managers["second"].calls = 2
    /\ Has(managers["first"].start_pool_status)
    /\ positions[1].burned
    /\ ~positions[2].burned

\* C28: with a token id recorded, burn_nft broadcasts a burn of exactly that
\* id whatever the position still holds; it fails before the broadcast only
\* when building or sending the transaction fails; and when the NFT contract
\* rejects the burn, the call ends with the error of burn_nft.
C28_BurnNotPrevalidated ==
    [][/\ (pc = "burn" /\ Has(nft_token_id)) =>
             \/ /\ Len(txs') = Len(txs) + 1
                /\ txs' = Append(txs, txs'[Len(txs')])
                /\ txs'[Len(txs')].kind = "burn"
                /\ txs'[Len(txs')].tokenId = Val(nft_token_id)
                /\ txs'[Len(txs')].args = [tokenId |-> Val(nft_token_id)]
             \/ /\ txs' = txs
                /\ outcome'.status = "raised"
                /\ outcome'.errors =
                       OpWrap(op) \o <<"Failed to burn NFT.", "Transaction failed", "send failed">>
       /\ (pc = "wait" /\ LastTx.kind = "burn" /\ ~Burnable(LastTx.tokenId)) =>
             /\ pc' = "idle"
             /\ "burn" \in failed'
             /\ outcome'.status = "raised"
             /\ outcome'.errors[Len(OpWrap(op)) + 1] = "Failed to burn NFT."]_vars

C28_Witness ==
    /\ op = "burn"
    /\ calls = 2
    /\ Len(txs) = 1
    /\ txs[1].kind = "burn"
    /\ txs[1].tokenId = Val(nft_token_id)
    /\ txs[1].status = "revert"
    /\ positions[Val(nft_token_id)].liquidity > 0
    /\ outcome.status = "raised"

\* C29: tick_to_price(0) is 1.0 when the two tokens have equal decimals;
\* of two ticks converted with the same decimals the lower one has the lower
\* price; and the lower_price of a pool status is below its upper_price.
C29_PriceIncreasesWithTick ==
    /\ \A i \in 1..Len(prices) :
          (price_ticks[i] = 0 /\ price_decimals[1] = price_decimals[2]) =>
              prices[i] = Float([digits |-> 1, frac |-> 0])
    /\ \A i, j \in 1..Len(prices) :
          price_ticks[i] < price_ticks[j] => FloatLess(prices[i], prices[j])
    /\ Len(prices) = 3 => FloatLess(prices[2], prices[3])

C29_Witness ==
    /\ Len(prices) = 3
    /\ price_decimals = <<1, 1>>
    /\ price_ticks = <<0, -1, 1>>
    /\ prices[1] = Float([digits |-> 1, frac |-> 0])
    /\ FloatLess(prices[2], prices[1])
    /\ FloatLess(prices[1], prices[3])

\* C30: with a provider other than INFURA and ALCHEMY the construction of a
\* BlockchainConnector ends with ValueError, with a supported provider whose
\* connection reports not connected it ends with RuntimeError; in both cases
\* no later stage of __init__ runs, no attribute is assigned and no instance
\* comes out.
C30_ConnectFailureEndsConstruction ==
    (~SupportedProvider \/ ~env.is_connected) =>
        /\ construct_pc \in {"connect_to_blockchain", "raised"}
        /\ connector_attrs = {}
        /\ construct_pc = "raised" =>
              construct_error = Some(IF SupportedProvider THEN "RuntimeError"
                                     ELSE "ValueError")

C30_Witness ==
    /\ env.PROVIDER = "ALCHEMY"
    /\ ~env.is_connected
    /\ env.PRIVATE_KEY = "unset"
    /\ construct_pc = "raised"
    /\ construct_error = Some("RuntimeError")
    /\ connector_attrs = {}

\* ------------------------------------------- the connector's balance queries
\* web3.is_address: the wallet, a second account and the two tokens are
\* addresses, the string of the test of line 263 is not.
OtherAddress == "0x1234567890abcdef1234567890abcdef12345678"

InvalidAddress == "0xInvalidAddress123"

is_address(a) == a \in {public_address, OtherAddress, token0_address, token1_address}

\* A call: the method, its arguments (<<>> is Python's None for address),
\* and what the outside world will do during it: whether web3.is_address
\* raises, which read of the node fails, whether config/abi/erc20_abi.json
\* can be opened.
Queries ==
    [method : {"get_balance"},
     address : {None, Some(public_address), Some(OtherAddress), Some(InvalidAddress)},
     token_address : {None},
     is_address_raises : BOOLEAN,
     failing_read : {"none", "get_balance", "from_wei"},
     abi_file : {TRUE}]
    \cup
    [method : {"get_token_balance"},
     address : {None, Some(OtherAddress), Some(InvalidAddress)},
     token_address : {Some(token0_address), Some(OtherAddress), Some(InvalidAddress)},
     is_address_raises : BOOLEAN,
     failing_read : {"none", "balanceOf", "decimals"},
     abi_file : BOOLEAN]

\* A constructed connector whose method is being called.
InitQueries ==
    /\ InitManager
    /\ Constructed
    /\ NoConversion
    /\ NoPricing
    /\ lower_range_percentage = MaxUnits
    /\ upper_range_percentage = MaxUnits
    /\ poolSpacing = MaxSpacing
    /\ slot0 = -1
    /\ NoSharing
    /\ query \in {Some(q) : q \in Queries}
    /\ query_pc = Val(query).method
    /\ address = Val(query).address
    /\ token_name = None
    /\ chain_reads = <<>>
    /\ query_outcome = None

\* validate_address, lines 134-143: what is_address says, False if it raises.
validate_address(a) ==
    IF Val(query).is_address_raises THEN FALSE ELSE is_address(a)

\* web3.eth.get_balance, in wei as [digits, exp10]: digits * 10^exp10.
eth_get_balance(a) ==
    [digits |-> IF a = public_address THEN 1 ELSE 2, exp10 |-> 18]

\* web3.from_wei(balance_wei, 'ether')
from_wei(wei) == [digits |-> wei.digits, exp10 |-> wei.exp10 - 18]

\* token_contract.functions.balanceOf(wallet_address).call(), in base units.
balanceOf(a) == IF a = public_address THEN 5 ELSE 7

\* self.token_name_mapping (line 161): the inverse of token_addresses.json.
token_name_mapping(a) ==
    IF a = token0_address THEN "TOKEN0"
    ELSE IF a = token1_address THEN "TOKEN1" ELSE "Unknown Token"

QueryReturns(value) ==
    /\ query_outcome' = Some([kind |-> "return", value |-> value])
    /\ query_pc' = "done"

QueryRaises(exception) ==
    /\ query_outcome' = Some([kind |-> "raise", value |-> exception])
    /\ query_pc' = "done"

QueryFrame ==
    UNCHANGED <<sharing, query, construction, pricing, managers, converter, params, position,
                opening, chain, start_pool_status, tick_spacing, current_tick, pc, op,
                calls, call_args, txs, outcome, failed>>

\* get_balance, lines 269-270.
GetBalanceDefaultsAddress ==
    /\ query_pc = "get_balance"
    /\ address' = IF address = None THEN Some(public_address) ELSE address
    /\ query_pc' = "get_balance:validate_address"
    /\ UNCHANGED <<token_name, chain_reads, query_outcome>>
    /\ QueryFrame

\* Lines 272-274.
GetBalanceInvalidAddress ==
    /\ query_pc = "get_balance:validate_address"
    /\ ~validate_address(Val(address))
    /\ QueryReturns(None)
    /\ UNCHANGED <<address, token_name, chain_reads>>
    /\ QueryFrame

\* Lines 277-280.
GetBalanceReads ==
    /\ query_pc = "get_balance:validate_address"
    /\ validate_address(Val(address))
    /\ Val(query).failing_read = "none"
    /\ chain_reads' = Append(chain_reads, [read |-> "get_balance", of |-> Val(address)])
    /\ QueryReturns(Some(from_wei(eth_get_balance(Val(address)))))
    /\ UNCHANGED <<address, token_name>>
    /\ QueryFrame

GetBalanceReadFails_raises ==
    /\ query_pc = "get_balance:validate_address"
    /\ validate_address(Val(address))
    /\ Val(query).failing_read # "none"
    /\ chain_reads' = Append(chain_reads, [read |-> "get_balance", of |-> Val(address)])
    /\ QueryRaises("Exception")
    /\ UNCHANGED <<address, token_name>>
    /\ QueryFrame

\* Line 277 or 278 raises; lines 281-283 log (address is a parameter, always
\* bound) and return None.
GetBalanceReadFails ==
    /\ query_pc = "get_balance:validate_address"
    /\ validate_address(Val(address))
    /\ Val(query).failing_read # "none"
    /\ chain_reads' = Append(chain_reads, [read |-> "get_balance", of |-> Val(address)])
    /\ QueryReturns(None)
    /\ UNCHANGED <<address, token_name>>
    /\ QueryFrame

\* get_token_balance, lines 299-300 (address is its wallet_address).
TokenBalanceDefaultsAddress ==
    /\ query_pc = "get_token_balance"
    /\ address' = IF address = None THEN Some(public_address) ELSE address
    /\ query_pc' = "get_token_balance:load_contract"
    /\ UNCHANGED <<token_name, chain_reads, query_outcome>>
    /\ QueryFrame

\* load_contract, lines 204-217: the address is valid and the ABI is read.
load_contract_returns ==
    /\ validate_address(Val(Val(query).token_address))
    /\ Val(query).abi_file

\* The except clause of get_token_balance, lines 317-319: the f-string of
\* line 318 reads the locals token_name and wallet_address; reading a
\* local that was never assigned raises UnboundLocalError out of the clause.
get_token_balance_except(name) ==
    IF Has(name) THEN QueryReturns(None) ELSE QueryRaises("UnboundLocalError")

\* Line 303 returns.
TokenBalanceLoadsContract ==
    /\ query_pc = "get_token_balance:load_contract"
    /\ load_contract_returns
    /\ query_pc' = "get_token_balance:token_name"
    /\ UNCHANGED <<address, token_name, chain_reads, query_outcome>>
    /\ QueryFrame

\* Line 303 raises (load_contract lines 206-207, 219-227): the except clause
\* runs with token_name not yet assigned.
TokenBalanceContractFails ==
    /\ query_pc = "get_token_balance:load_contract"
    /\ ~load_contract_returns
    /\ get_token_balance_except(token_name)
    /\ UNCHANGED <<address, token_name, chain_reads>>
    /\ QueryFrame

\* Line 306.
TokenBalanceNamesToken ==
    /\ query_pc = "get_token_balance:token_name"
    /\ token_name' = Some(token_name_mapping(Val(Val(query).token_address)))
    /\ query_pc' = "get_token_balance:balanceOf"
    /\ UNCHANGED <<address, chain_reads, query_outcome>>
    /\ QueryFrame

\* Lines 309-316.
TokenBalanceReads ==
    /\ query_pc = "get_token_balance:balanceOf"
    /\ Val(query).failing_read = "none"
    /\ chain_reads' = chain_reads \o <<[read |-> "balanceOf", of |-> Val(address)],
                                        [read |-> "decimals", of |-> Val(address)]>>
    /\ QueryReturns(Some(to_human_readable(balanceOf(Val(address)), token0_decimals)))
    /\ UNCHANGED <<address, token_name>>
    /\ QueryFrame

\* Line 309 or 310 raises; lines 317-319.
TokenBalanceReadFails ==
    /\ query_pc = "get_token_balance:balanceOf"
    /\ Val(query).failing_read # "none"
    /\ chain_reads' = chain_reads \o
          IF Val(query).failing_read = "balanceOf"
          THEN <<[read |-> "balanceOf", of |-> Val(address)]>>
          ELSE <<[read |-> "balanceOf", of |-> Val(address)],
                 [read |-> "decimals", of |-> Val(address)]>>
    /\ get_token_balance_except(token_name)
    /\ UNCHANGED <<address, token_name>>
    /\ QueryFrame

NextQueries ==
    \/ GetBalanceDefaultsAddress
    \/ GetBalanceInvalidAddress
    \/ GetBalanceReads
    \/ GetBalanceReadFails
    \/ TokenBalanceDefaultsAddress
    \/ TokenBalanceLoadsContract
    \/ TokenBalanceContractFails
    \/ TokenBalanceNamesToken
    \/ TokenBalanceReads
    \/ TokenBalanceReadFails

SpecQueries == InitQueries /\ [][NextQueries]_vars

\* ----------------------------- two managers opening on one wallet, by steps
\* The base-unit amounts the two managers were constructed for: the first
\* with the maxima above, the second with half the token0 maximum (0.005).
desired(i, step) ==
    IF i = "second" /\ step = "approve0"
    THEN to_blockchain_unit(Float([digits |-> 5, frac |-> 3]), token0_decimals)
    ELSE AmountOf(step)

NextStep(step) ==
    IF step = "approve0" THEN "approve1" ELSE IF step = "approve1" THEN "mint" ELSE "done"

\* Both managers have run lines 179-185 of open_liquidity_position.
InitShared ==
    /\ InitManager
    /\ NoQuery
    /\ Constructed
    /\ NoConversion
    /\ NoPricing
    /\ lower_range_percentage = MaxUnits
    /\ upper_range_percentage = MaxUnits
    /\ poolSpacing = MaxSpacing
    /\ slot0 = -1
    /\ workers = [i \in Instances |-> [step |-> "approve0", at |-> "start", nonce |-> None]]
    /\ mempool = {}

SharedFrame ==
    UNCHANGED <<queries, construction, pricing, managers, converter, params, position,
                opening, start_pool_status, tick_spacing, current_tick, pc, op, calls,
                call_args, txs, outcome, failed, slot0, poolSpacing, minted, positions>>

\* The transaction of the wallet that manager i is waiting for.
PendingOf(i) == {tx \in mempool : tx.by = i}

WorkerRaises(i) ==
    workers' = [workers EXCEPT ![i] = [step |-> "raised", at |-> "start", nonce |-> None]]

WorkerMovesOn(i) ==
    workers' = [workers EXCEPT ![i] = [step |-> NextStep(workers[i].step),
                                        at |-> "start", nonce |-> None]]

\* approve_token, lines 371-375: the allowance read is enough, no transaction.
AllowanceSufficient(i) ==
    /\ workers[i].step \in {"approve0", "approve1"}
    /\ workers[i].at = "start"
    /\ allowance[TokenOf(workers[i].step)] >= desired(i, workers[i].step)
    /\ WorkerMovesOn(i)
    /\ UNCHANGED <<chain, mempool>>
    /\ SharedFrame

\* build_and_send_transaction, lines 407-415, for the approve of line 378 or
\* the mint of line 208: the nonce is the wallet's transaction count now.
BuildsTransaction(i) ==
    /\ workers[i].step \in {"approve0", "approve1", "mint"}
    /\ workers[i].at = "start"
    /\ workers[i].step = "mint" \/
           allowance[TokenOf(workers[i].step)] < desired(i, workers[i].step)
    /\ workers' = [workers EXCEPT ![i].at = "built", ![i].nonce = Some(nonce)]
    /\ UNCHANGED <<chain, mempool>>
    /\ SharedFrame

\* Line 418: the node takes the transaction.  It does so also when it holds
\* another one with the same nonce that it has not seen (the provider's
\* nodes) or that this one outbids (gasPrice is read at build time).
SendAccepted(i) ==
    /\ workers[i].at = "built"
    /\ Val(workers[i].nonce) >= nonce
    /\ mempool' = mempool \cup {[by |-> i, kind |-> workers[i].step,
                                  nonce |-> Val(workers[i].nonce)]}
    /\ wallet_nonces' = Append(wallet_nonces, Val(workers[i].nonce))
    /\ workers' = [workers EXCEPT ![i].at = "sent"]
    /\ UNCHANGED <<slot0, poolSpacing, allowance, nonce, minted, positions>>
    /\ SharedFrame

\* Line 418 raises: nonce too low, or a transaction with this nonce is known
\* to the node; lines 430-432, then 386-388 or 219-221.
SendRejected(i) ==
    /\ workers[i].at = "built"
    /\ \/ Val(workers[i].nonce) < nonce
       \/ \E tx \in mempool : tx.nonce = Val(workers[i].nonce)
    /\ WorkerRaises(i)
    /\ UNCHANGED <<chain, mempool>>
    /\ SharedFrame

\* The transaction of manager i that is next for the wallet.
Minable(i, kinds) ==
    {tx \in PendingOf(i) : tx.nonce = nonce /\ tx.kind \in kinds}

\* An approve is mined: the allowance is set to its amount; line 420 returns.
ApproveMined(i) ==
    /\ workers[i].at = "sent"
    /\ \E tx \in Minable(i, {"approve0", "approve1"}) :
          /\ allowance' = [allowance EXCEPT ![TokenOf(tx.kind)] = desired(i, tx.kind)]
          /\ mempool' = mempool \ {tx}
    /\ nonce' = nonce + 1
    /\ WorkerMovesOn(i)
    /\ UNCHANGED <<slot0, poolSpacing, wallet_nonces, minted, positions>>
    /\ SharedFrame

MintCovered(i) ==
    /\ allowance[token0_address] >= desired(i, "approve0")
    /\ allowance[token1_address] >= desired(i, "approve1")

\* A mint is mined: the NFT manager pulls the desired amounts.
MintMined(i) ==
    /\ workers[i].at = "sent"
    /\ MintCovered(i)
    /\ \E tx \in Minable(i, {"mint"}) : mempool' = mempool \ {tx}
    /\ allowance' = [t \in DOMAIN allowance |->
                        allowance[t] - desired(i, IF t = token0_address THEN "approve0"
                                                  ELSE "approve1")]
    /\ nonce' = nonce + 1
    /\ WorkerMovesOn(i)
    /\ UNCHANGED <<slot0, poolSpacing, wallet_nonces, minted, positions>>
    /\ SharedFrame

\* A mint is mined and reverts, the allowance being short: receipt.status is
\* 0, lines 426-427.
MintReverted(i) ==
    /\ workers[i].at = "sent"
    /\ ~MintCovered(i)
    /\ \E tx \in Minable(i, {"mint"}) : mempool' = mempool \ {tx}
    /\ nonce' = nonce + 1
    /\ WorkerRaises(i)
    /\ UNCHANGED <<slot0, poolSpacing, wallet_nonces, allowance, minted, positions>>
    /\ SharedFrame

\* The wallet has used the nonce for another transaction: this one is never
\* mined and line 420 raises TimeExhausted.
ReceiptTimesOut(i) ==
    /\ workers[i].at = "sent"
    /\ \E tx \in PendingOf(i) : tx.nonce < nonce /\ mempool' = mempool \ {tx}
    /\ WorkerRaises(i)
    /\ UNCHANGED chain
    /\ SharedFrame

NextShared ==
    \E i \in Instances :
        \/ AllowanceSufficient(i)
        \/ BuildsTransaction(i)
        \/ SendAccepted(i)
        \/ SendRejected(i)
        \/ ApproveMined(i)
        \/ MintMined(i)
        \/ MintReverted(i)
        \/ ReceiptTimesOut(i)

SpecShared == InitShared /\ [][NextShared]_vars

\* The private key stage is reached: the provider is supported and the node
\* answered (line 38 returned).
ConnectedFirst == SupportedProvider /\ env.is_connected

ConstructionEnded == construct_pc \in {"raised", "done"}

\* C31, as stated: a construction with a missing or invalid private key ends
\* with ValueError; with a valid key, private_key is the configured key and
\* public_address is the address derived from that key.
C31_KeyDecidesConstruction ==
    /\ (env.PRIVATE_KEY \notin ValidKeys /\ ConstructionEnded) =>
           construct_error = Some("ValueError")
    /\ Has(self_private_key) => self_private_key = Some(env.PRIVATE_KEY)
    /\ Has(self_public_address) =>
           self_public_address = Some(from_key(env.PRIVATE_KEY))

\* C31, amended: the same, for a construction whose connection stage
\* succeeded; a construction that cannot connect ends with the error of
\* connect_to_blockchain whatever the key is, and assigns neither attribute.
C31_KeyDecidesConstructionOnceConnected ==
    /\ (ConnectedFirst /\ env.PRIVATE_KEY \notin ValidKeys /\ ConstructionEnded) =>
           /\ construct_pc = "raised"
           /\ construct_error = Some("ValueError")
           /\ self_private_key = None /\ self_public_address = None
    /\ (ConnectedFirst /\ env.PRIVATE_KEY \in ValidKeys
            /\ construct_pc \notin {"connect_to_blockchain", "get_valid_private_key"}) =>
           self_private_key = Some(env.PRIVATE_KEY)
    /\ (ConnectedFirst /\ env.PRIVATE_KEY \in ValidKeys
            /\ "public_address" \in connector_attrs) =>
           self_public_address = Some(from_key(env.PRIVATE_KEY))
    /\ ~ConnectedFirst => (self_private_key = None /\ self_public_address = None)

C31_Witness ==
    /\ ConnectedFirst /\ env.PRIVATE_KEY = OtherKey
    /\ construct_pc = "done"
    /\ self_private_key = Some(OtherKey)
    /\ self_public_address = Some(from_key(OtherKey))

\* C32: get_balance never raises; it returns None when the address is invalid
\* or when the balance query errors; called without an address it queries the
\* connector's own public_address.
C32_GetBalanceNeverRaises ==
    (Val(query).method = "get_balance") =>
        /\ Has(query_outcome) => Val(query_outcome).kind = "return"
        /\ (/\ Has(query_outcome)
            /\ \/ Val(query).address = Some(InvalidAddress)
               \/ Val(query).is_address_raises
               \/ Val(query).failing_read # "none") =>
                  Val(query_outcome).value = None
        /\ (Val(query).address = None) =>
               \A i \in 1..Len(chain_reads) : chain_reads[i].of = public_address
        /\ (/\ Has(query_outcome)
            /\ Val(query).address \in {None, Some(public_address)}
            /\ ~Val(query).is_address_raises
            /\ Val(query).failing_read = "none") =>
                  /\ Val(query_outcome).value =
                         Some(from_wei(eth_get_balance(public_address)))
                  /\ Len(chain_reads) = 1

C32_Witness ==
    /\ Val(query).method = "get_balance"
    /\ Val(query).address = None
    /\ Val(query).failing_read = "get_balance"
    /\ chain_reads = <<[read |-> "get_balance", of |-> public_address]>>
    /\ query_outcome = Some([kind |-> "return", value |-> None])

\* C33: get_token_balance returns None and never raises whenever one of its
\* steps fails, loading the token contract included.
C33_GetTokenBalanceNeverRaises ==
    (Val(query).method = "get_token_balance" /\ Has(query_outcome)) =>
        /\ Val(query_outcome).kind = "return"
        /\ (~load_contract_returns \/ Val(query).failing_read # "none") =>
               Val(query_outcome).value = None

\* C34: the status get_pool_status captured is a snapshot of one pool state:
\* its current_price is the price of the slot0 reading its current_tick was
\* taken from, also when the pool trades between the reads of one call.
C34_StatusFromOneSlot0Reading ==
    \A st \in ComputedStatuses :
        st.current_price = get_current_price(st.current_tick)

\* C35: when open_liquidity_position submits its mint, the NFT manager's
\* allowance for token0 and for token1 is at least the desired amount of that
\* mint, in every interleaving of two managers that share the wallet, the NFT
\* manager and the tokens.
C35_MintSubmittedWithAllowance ==
    [][\A i \in Instances :
          (workers[i].step = "mint" /\ workers[i].at = "built"
              /\ workers'[i].at = "sent") => MintCovered(i)]_vars

\* C36: when two connectors of one wallet run build_and_send_transaction
\* concurrently, no two broadcast transactions carry the same nonce.
C36_NoNonceBroadcastTwice ==
    \A a, b \in 1..Len(wallet_nonces) :
        a # b => wallet_nonces[a] # wallet_nonces[b]

\* C37: once a mint was confirmed with success status inside
\* open_liquidity_position, opening_tx_hash and opening_receipt are those of
\* that transaction, also when parsing the receipt failed and open raised.
C37_ConfirmedMintIsRetained ==
    (Len(txs) > 0 /\ LastTx.kind = "mint" /\ LastTx.status = "success") =>
        /\ opening_tx_hash = Some(LastTx.hash)
        /\ Has(opening_receipt)
        /\ Val(opening_receipt).status = 1
        /\ minted > 0
        /\ Len(Val(opening_receipt).logs) <= MaxLogs
        /\ \A k \in 1..Len(Val(opening_receipt).logs) :
               Val(opening_receipt).logs[k] \in MintLogs(minted)

C37_Witness ==
    /\ Len(txs) > 0 /\ LastTx.kind = "mint" /\ LastTx.status = "success"
    /\ outcome.status = "raised"
    /\ "parse" \in failed
    /\ opening_tx_hash = Some(LastTx.hash)
    /\ Has(opening_receipt)
    /\ ~Has(nft_token_id)

\* C38: close_liquidity_position, decrease_liquidity, collect_fees and
\* burn_nft, succeeding or failing, never change nft_token_id, amount0,
\* amount1, opening_tx_hash or opening_receipt; after a successful close the
\* manager still holds the burned token id, and a further close call is not
\* ended by a local check: it fails at the chain.
C38_ClosePhaseKeepsPosition ==
    [][(op' \in ClosePhase) =>
          /\ nft_token_id' = nft_token_id
          /\ amount0' = amount0
          /\ amount1' = amount1
          /\ opening_tx_hash' = opening_tx_hash
          /\ opening_receipt' = opening_receipt
          /\ (op' = "close" /\ outcome'.status = "returned") =>
                 /\ Has(nft_token_id')
                 /\ positions'[Val(nft_token_id')].burned
          /\ (Has(nft_token_id) /\ pc # "idle" /\ pc' = "idle"
                 /\ outcome'.status = "raised") =>
                 /\ failed' \cap {"decrease", "collect", "burn"} # {}
                 /\ \A k \in 1..Len(outcome'.errors) :
                        outcome'.errors[k] # "AttributeError: nft_token_id"]_vars

C38_Witness ==
    /\ op = "close" /\ pc = "idle" /\ calls = 1
    /\ outcome.status = "raised"
    /\ "decrease" \in failed
    /\ txs = <<>>
    /\ nft_token_id = Some(1)
    /\ positions[1].burned
    /\ opening_tx_hash = Some(<<-1, 3>>)
    /\ Has(amount0) /\ Has(amount1) /\ Has(opening_receipt)

\* C39: to_blockchain_unit truncates toward zero: for every non-negative
\* amount and decimals d the result is the integer part of amount * 10^d, so
\* it never exceeds amount * 10^d.
C39_IntegerPartOfProduct ==
    Has(conv_units) =>
        LET v == FloatValue(Float(Val(conv_amount)))
            d == Val(conv_decimals)
        IN  /\ Val(conv_units) = (v.num * Pow10(d)) \div v.den
            /\ Val(conv_units) * v.den <= v.num * Pow10(d)

====
